---- MODULE Spec2Model ----
(***************************************************************************)
(* Model of the agent service of cmnd-n-ctrl: the policy engine, the       *)
(* orchestrator's multi-round tool loop, the consent lifecycle of          *)
(* AgentService, the file store and the MCP child table.                   *)
(*                                                                         *)
(* Option<T> values are sequences of length at most one: None is <<>> and  *)
(* Some(x) is <<x>>.                                                       *)
(***************************************************************************)
EXTENDS Integers, Sequences, FiniteSets, TLC

VARIABLES
    orch_in,      \* arguments of one Orchestrator::run_with_confirmation call
    orch_out,     \* its ChatResponse with the loop's counters, or None
    pending_consents,        \* pending_consents.json: Vec<PendingConsentState>
    sessions,                \* sessions.json: Vec<Session>
    audit,                   \* audit.json: Vec<AuditEntry>
    provider_state,          \* providers.json: ProviderState
    consent_counter,         \* AgentService.consent_counter
    session_counter,         \* AgentService.session_counter
    synthetic_audit_counter, \* AgentService.synthetic_audit_counter
    now,                     \* the clock read by now_secs()
    ticks,                   \* how many times the clock has advanced
    last,                    \* the chat or consent call just made and its result, or None
    fs_lock,      \* <file>.lock: None, or Some(w) when writer w created it
    fs_dir,       \* the directory: for each path, None or Some(inode)
    fs_inodes,    \* the content of each inode, a sequence of chunks
    fs_writer,    \* each writer's position in write_json
    fs_reader,    \* each reader's position in read_json and its last result
    mcp_servers,    \* mcp_servers.json: Vec<McpServerRecord>
    mcp_processes,  \* AgentService.mcp_processes: server id -> child pid
    mcp_counter,    \* AgentService.mcp_counter
    os_alive,       \* the pids of the children that have not exited
    next_pid,       \* the pid of the next child spawned
    restarts,       \* how many times the service was dropped and constructed again
    mcp_normalized, \* the ids the last construction found running on disk
    mcp_exited,     \* the ids whose tracked child exited and has not been
                    \* replaced, stopped, removed or reported since
    mcp_last,       \* the response of the step just taken when it was
                    \* mcp.servers.list or system.health, else None
    minted,         \* for each kind of id, the ids this process has minted, in order
    at_start,       \* for each kind of id, the ids on disk when this process started
    call_in,        \* the arguments of one call of a function of the program
    call_out        \* what that call returned, or None before it is made

orchVars == <<orch_in, orch_out>>
storeVars == <<pending_consents, sessions, audit, provider_state>>
counterVars == <<consent_counter, session_counter, synthetic_audit_counter>>
clockVars == <<now, ticks>>
svcVars == <<storeVars, counterVars, clockVars, last>>
fsVars == <<fs_lock, fs_dir, fs_inodes, fs_writer, fs_reader>>
mcpVars == <<mcp_servers, mcp_processes, mcp_counter, os_alive, next_pid,
             restarts, mcp_normalized, mcp_exited, mcp_last>>
idVars == <<minted, at_start>>
callVars == <<call_in, call_out>>
vars == <<orchVars, svcVars, fsVars, mcpVars, idVars, callVars>>

None == <<>>
Some(x) == <<x>>

Min(a, b) == IF a <= b THEN a ELSE b

RECURSIVE SeqsUpTo(_, _)
\* All sequences over S of length 0..n.
SeqsUpTo(S, n) ==
    IF n = 0 THEN {<<>>}
    ELSE LET shorter == SeqsUpTo(S, n - 1)
         IN shorter \cup {Append(s, x) : s \in {t \in shorter : Len(t) = n - 1}, x \in S}

StartsWith(s, p) == Len(s) >= Len(p) /\ SubSeq(s, 1, Len(p)) = p

(***************************************************************************)
(* Bounds of the model.                                                    *)
(***************************************************************************)
\* Most tool calls in one ProviderReply::ToolCalls.
MaxCalls == 2
\* chat.request is explored while fewer audit ids than this are minted.
MaxAudits == 2
\* Most consent records one service mints.
MaxConsents == 1
\* Most sessions one service creates.
MaxSessions == 1
\* Most messages sessions.messages.append adds to one session.
MaxAppends == 1
\* Most advances of the clock.
MaxTicks == 1
\* Concurrent writers and lock-free readers of one store file.
NumWriters == 2
NumReaders == 1
\* Most write_json calls of one writer and read_json calls of one reader.
MaxWrites == 2
MaxReads == 2
\* Most MCP servers added, children spawned and restarts of the service.
MaxServers == 1
MaxSpawns == 2
MaxRestarts == 1

(***************************************************************************)
(* Tool registry (tool_registry.rs)                                        *)
(***************************************************************************)
RegistryNames ==
    { "time.now", "echo", "text.uppercase", "math.add", "file.list",
      "file.read_text", "file.read_csv", "file.read_json", "file.search_text",
      "file.stat", "file.write_text", "file.append_text", "file.mkdir",
      "mcp.tool_call", "desktop.open_url", "desktop.app.list",
      "desktop.app.activate" }

has_tool(name) == name \in RegistryNames

(***************************************************************************)
(* Policy (policy.rs)                                                      *)
(***************************************************************************)
\* A tier assignment that tests the prefixes before the names of the writing
\* file tools.
capability_tier_prefix_first(name) ==
    IF name = "desktop.app.activate" THEN "SystemActions"
    ELSE IF name = "desktop.app.list" THEN "LocalActions"
    ELSE IF \/ StartsWith(name, "time.")
            \/ StartsWith(name, "math.")
            \/ StartsWith(name, "text.")
            \/ StartsWith(name, "file.")
            \/ name = "echo"
         THEN "ReadOnly"
    ELSE IF name \in {"file.write_text", "file.append_text", "file.mkdir"}
         THEN "LocalActions"
    ELSE IF \/ StartsWith(name, "desktop.")
            \/ StartsWith(name, "android.")
            \/ StartsWith(name, "ios.")
         THEN "LocalActions"
    ELSE "SystemActions"

capability_tier(name) ==
    IF name = "desktop.app.activate" THEN "SystemActions"
    ELSE IF name = "desktop.app.list" THEN "LocalActions"
    ELSE IF name \in {"file.write_text", "file.append_text", "file.mkdir"}
         THEN "LocalActions"
    ELSE IF \/ StartsWith(name, "time.")
            \/ StartsWith(name, "math.")
            \/ StartsWith(name, "text.")
            \/ StartsWith(name, "file.")
            \/ name = "echo"
         THEN "ReadOnly"
    ELSE IF \/ StartsWith(name, "desktop.")
            \/ StartsWith(name, "android.")
            \/ StartsWith(name, "ios.")
         THEN "LocalActions"
    ELSE "SystemActions"

\* Policy::default()
default_require_confirmation == FALSE

ConsentReason(name) == "Tool '" \o name \o "' requires explicit user consent"

\* An authorization that looks at the confirmation before the reserved
\* prefix.
authorize_confirmation_first(name, mode, user_confirmed) ==
    LET require_confirmation ==
            IF capability_tier(name) = "ReadOnly"
            THEN default_require_confirmation \/ mode = "RequireConfirmation"
            ELSE TRUE
    IN IF require_confirmation /\ ~user_confirmed
       THEN [kind |-> "RequireConfirmation", reason |-> ConsentReason(name)]
       ELSE IF StartsWith(name, "internal.")
       THEN [kind |-> "Deny", reason |-> "internal.* tools are reserved"]
       ELSE [kind |-> "Allow", reason |-> ""]

authorize(name, mode, user_confirmed) ==
    IF StartsWith(name, "internal.")
    THEN [kind |-> "Deny", reason |-> "internal.* tools are reserved"]
    ELSE LET require_confirmation ==
                 IF capability_tier(name) = "ReadOnly"
                 THEN default_require_confirmation \/ mode = "RequireConfirmation"
                 ELSE TRUE
         IN IF require_confirmation /\ ~user_confirmed
            THEN [kind |-> "RequireConfirmation", reason |-> ConsentReason(name)]
            ELSE [kind |-> "Allow", reason |-> ""]

(***************************************************************************)
(* JSON values (serde_json::Value) and the argument preview of the         *)
(* orchestrator (orchestrator.rs).  An arguments_json is its text together *)
(* with what serde_json::from_str makes of the text: Some(value) when the  *)
(* text is the JSON of value, None when it is not JSON.                    *)
(***************************************************************************)
JString(s) == [t |-> "string", s |-> s]
JObject(pairs) == [t |-> "object", pairs |-> pairs]
JArray(items) == [t |-> "array", items |-> items]

RECURSIVE JoinTexts(_)
\* The texts with commas between them.
JoinTexts(texts) ==
    IF texts = <<>> THEN ""
    ELSE IF Len(texts) = 1 THEN texts[1]
    ELSE texts[1] \o "," \o JoinTexts(Tail(texts))

RECURSIVE to_string(_)
\* serde_json::to_string: the compact text of a value.  The pairs of an
\* object are written in the order they are held in.
to_string(value) ==
    CASE value.t = "string" -> "\"" \o value.s \o "\""
      [] value.t = "object" ->
            "{" \o JoinTexts([i \in DOMAIN value.pairs |->
                      "\"" \o value.pairs[i][1] \o "\":" \o to_string(value.pairs[i][2])])
                \o "}"
      [] value.t = "array" ->
            "[" \o JoinTexts([i \in DOMAIN value.items |-> to_string(value.items[i])])
                \o "]"

\* The arguments_json whose text is the JSON of value.
JsonArguments(value) == [text |-> to_string(value), value |-> Some(value)]

\* An arguments_json whose text is not JSON.
NotJsonArguments(text) == [text |-> text, value |-> None]

\* The arguments of a call that has none.
NoArguments == JsonArguments(JObject(<<>>))

UpperCase == "ABCDEFGHIJKLMNOPQRSTUVWXYZ"
LowerCase == "abcdefghijklmnopqrstuvwxyz"

\* char::to_ascii_lowercase
CharToAsciiLowercase(c) ==
    IF \E i \in 1..26 : SubSeq(UpperCase, i, i) = c
    THEN LET i == CHOOSE i \in 1..26 : SubSeq(UpperCase, i, i) = c
         IN SubSeq(LowerCase, i, i)
    ELSE c

RECURSIVE to_ascii_lowercase(_)
to_ascii_lowercase(text) ==
    IF text = "" THEN ""
    ELSE CharToAsciiLowercase(SubSeq(text, 1, 1))
            \o to_ascii_lowercase(SubSeq(text, 2, Len(text)))

SensitiveKeys ==
    {"api_key", "apikey", "token", "authorization", "password", "secret", "content"}

\* A key test that tells the sensitive keys only in lower case.
is_sensitive_key_exact(key) == key \in SensitiveKeys

is_sensitive_key(key) == to_ascii_lowercase(key) \in SensitiveKeys

Redacted == JString("[REDACTED]")

RECURSIVE redact_sensitive_json(_)
redact_sensitive_json(value) ==
    CASE value.t = "object" ->
            JObject([i \in DOMAIN value.pairs |->
                        <<value.pairs[i][1],
                          IF is_sensitive_key(value.pairs[i][1]) THEN Redacted
                          ELSE redact_sensitive_json(value.pairs[i][2])>>])
      [] value.t = "array" ->
            JArray([i \in DOMAIN value.items |-> redact_sensitive_json(value.items[i])])
      [] OTHER -> value

\* sanitize_arguments_preview: a text that is not JSON is returned as it is
sanitize_arguments_preview(arguments_json) ==
    IF arguments_json.value = None THEN arguments_json.text
    ELSE to_string(redact_sensitive_json(arguments_json.value[1]))

MAX_CHARS == 180

\* A preview that cuts nothing off.
TruncatePreviewWhole(text) == text

\* `chars.take(MAX_CHARS)`, with "..." when something was cut off
TruncatePreview(text) ==
    IF Len(text) > MAX_CHARS THEN SubSeq(text, 1, MAX_CHARS) \o "..." ELSE text

\* arguments_preview.  The texts of the model hold no line breaks, so the
\* replacement of '\n' and '\r' by ' ' leaves them as they are.
arguments_preview(arguments_json) ==
    TruncatePreview(sanitize_arguments_preview(arguments_json))

(***************************************************************************)
(* Provider (provider_trait.rs).  The provider is external: its replies    *)
(* are an arbitrary function of the invocation.  A behaviour is a          *)
(* non-empty sequence of replies: the n-th invocation of chat answers      *)
(* with the n-th reply and the last reply repeats from then on.  The       *)
(* behaviours explored are given by a first reply and the reply that       *)
(* follows it on every later invocation.                                   *)
(***************************************************************************)
FinalText(text) == [kind |-> "FinalText", text |-> text, calls |-> <<>>]
ToolCalls(calls) == [kind |-> "ToolCalls", text |-> "", calls |-> calls]
ToolCallWith(name, arguments_json) == [name |-> name, arguments_json |-> arguments_json]

\* A call without arguments.
ToolCall(name) == ToolCallWith(name, NoArguments)

ProviderChat(behaviour, n) == behaviour[Min(n, Len(behaviour))]

(***************************************************************************)
(* Action backend (traits.rs, ActionBackend::execute_tool)                 *)
(***************************************************************************)
execute_tool(call) ==
    [name |-> call.name, evidence_summary |-> "executed " \o call.name]

(***************************************************************************)
(* Orchestrator (orchestrator.rs)                                          *)
(***************************************************************************)
MAX_TOOL_ROUNDS == 4

TooManyRoundsText ==
    "Provider requested more than 4 tool rounds; stopping for safety."
ConfirmationRequiredText ==
    "Confirmation required before executing requested tools."

ActionEvent(tool_name, tier, status, reason, preview, evidence_summary) ==
    [tool_name |-> tool_name, capability_tier |-> tier, status |-> status,
     reason |-> reason, arguments_preview |-> preview,
     evidence_summary |-> evidence_summary]

\* `arguments_preview: Some(arguments_preview(&call.arguments_json))`
PreviewOf(call) == Some(arguments_preview(call.arguments_json))

PolicyDecisionRecord(tool_name, tier, decision, reason) ==
    [tool_name |-> tool_name, capability_tier |-> tier, decision |-> decision,
     reason |-> reason]

\* The locals of run_with_confirmation before the first provider call.
RunStart ==
    [executed_actions |-> <<>>, proposed_actions |-> <<>>,
     executed_action_events |-> <<>>, tool_results |-> <<>>,
     requested_tool_calls |-> <<>>, policy_decisions |-> <<>>,
     tool_rounds |-> 0, pending_confirmation |-> FALSE,
     provider_chats |-> 0, final_text |-> ""]

\* DenyUnknownTool that also asks for a confirmation.
DenyUnknownToolPending(acc, call) ==
    [acc EXCEPT
        !.pending_confirmation = TRUE,
        !.executed_actions = Append(@, "denied:" \o call.name \o ":unknown_tool"),
        !.proposed_actions = Append(@,
            ActionEvent(call.name, "SystemActions", "denied",
                        Some("unknown_tool"), PreviewOf(call), None)),
        !.policy_decisions = Append(@,
            PolicyDecisionRecord(call.name, "SystemActions", "deny",
                                 Some("unknown_tool")))]

\* A call whose name is not in the registry.
DenyUnknownTool(acc, call) ==
    [acc EXCEPT
        !.executed_actions = Append(@, "denied:" \o call.name \o ":unknown_tool"),
        !.proposed_actions = Append(@,
            ActionEvent(call.name, "SystemActions", "denied",
                        Some("unknown_tool"), PreviewOf(call), None)),
        !.policy_decisions = Append(@,
            PolicyDecisionRecord(call.name, "SystemActions", "deny",
                                 Some("unknown_tool")))]

\* An allowed call that is executed without being listed among the proposed
\* actions.
AllowCallUnlisted(acc, call, tier) ==
    LET result == execute_tool(call)
    IN [acc EXCEPT
        !.executed_actions = Append(@, call.name),
        !.executed_action_events = Append(@,
            ActionEvent(call.name, tier, "executed", None, PreviewOf(call),
                        Some(result.evidence_summary))),
        !.policy_decisions = Append(@,
            PolicyDecisionRecord(call.name, tier, "allow", None)),
        !.tool_results = Append(@, result)]

\* Authorization::Allow: the approved event, the execution, the executed event.
AllowCall(acc, call, tier) ==
    LET result == execute_tool(call)
    IN [acc EXCEPT
        !.proposed_actions = Append(@,
            ActionEvent(call.name, tier, "approved", None, PreviewOf(call), None)),
        !.executed_actions = Append(@, call.name),
        !.executed_action_events = Append(@,
            ActionEvent(call.name, tier, "executed", None, PreviewOf(call),
                        Some(result.evidence_summary))),
        !.policy_decisions = Append(@,
            PolicyDecisionRecord(call.name, tier, "allow", None)),
        !.tool_results = Append(@, result)]

\* RequireConfirmationCall logging the bare tool name, as an executed call is.
RequireConfirmationCallBareName(acc, call, tier, reason) ==
    [acc EXCEPT
        !.pending_confirmation = TRUE,
        !.proposed_actions = Append(@,
            ActionEvent(call.name, tier, "consent_required", Some(reason),
                        PreviewOf(call), None)),
        !.policy_decisions = Append(@,
            PolicyDecisionRecord(call.name, tier, "require_confirmation",
                                 Some(reason))),
        !.executed_actions = Append(@, call.name)]

\* Authorization::RequireConfirmation
RequireConfirmationCall(acc, call, tier, reason) ==
    [acc EXCEPT
        !.pending_confirmation = TRUE,
        !.proposed_actions = Append(@,
            ActionEvent(call.name, tier, "consent_required", Some(reason),
                        PreviewOf(call), None)),
        !.policy_decisions = Append(@,
            PolicyDecisionRecord(call.name, tier, "require_confirmation",
                                 Some(reason))),
        !.executed_actions = Append(@,
            "confirm_required:" \o call.name \o ":" \o reason)]

\* Authorization::Deny
DenyCall(acc, call, tier, reason) ==
    [acc EXCEPT
        !.proposed_actions = Append(@,
            ActionEvent(call.name, tier, "denied", Some(reason), PreviewOf(call),
                        None)),
        !.policy_decisions = Append(@,
            PolicyDecisionRecord(call.name, tier, "deny", Some(reason))),
        !.executed_actions = Append(@, "denied:" \o call.name \o ":" \o reason)]

\* The body of `for call in calls` for one call.
HandleCall(acc, call, mode, user_confirmed) ==
    LET acc0 == [acc EXCEPT !.requested_tool_calls = Append(@, call.name)]
    IN IF ~has_tool(call.name) THEN DenyUnknownTool(acc0, call)
       ELSE LET tier == capability_tier(call.name)
                auth == authorize(call.name, mode, user_confirmed)
            IN CASE auth.kind = "Allow" -> AllowCall(acc0, call, tier)
                 [] auth.kind = "RequireConfirmation" ->
                        RequireConfirmationCall(acc0, call, tier, auth.reason)
                 [] auth.kind = "Deny" -> DenyCall(acc0, call, tier, auth.reason)

RECURSIVE ProcessCallsLastFirst(_, _, _, _)
\* The calls of a reply processed from the last to the first.
ProcessCallsLastFirst(acc, calls, mode, user_confirmed) ==
    IF calls = <<>> THEN acc
    ELSE HandleCall(ProcessCallsLastFirst(acc, Tail(calls), mode, user_confirmed),
                    Head(calls), mode, user_confirmed)

RECURSIVE ProcessCalls(_, _, _, _)
ProcessCalls(acc, calls, mode, user_confirmed) ==
    IF calls = <<>> THEN acc
    ELSE ProcessCalls(HandleCall(acc, Head(calls), mode, user_confirmed),
                      Tail(calls), mode, user_confirmed)

\* The round check off by one: a fifth round is let through.
RoundLimitExceededLate(tool_rounds) == tool_rounds > MAX_TOOL_ROUNDS + 1

\* `if tool_rounds > Self::MAX_TOOL_ROUNDS`
RoundLimitExceeded(tool_rounds) == tool_rounds > MAX_TOOL_ROUNDS

\* An unproductive-round test that looks at the pending confirmation only.
UnproductiveConsentRoundAnyPending(acc, tool_results_before) ==
    acc.pending_confirmation

\* `if pending_confirmation && tool_results.len() == tool_results_before`
UnproductiveConsentRound(acc, tool_results_before) ==
    acc.pending_confirmation /\ Len(acc.tool_results) = tool_results_before

RECURSIVE RunLoop(_, _, _, _)
\* One provider.chat call and the match on its reply, then the rest of the loop.
RunLoop(acc, behaviour, mode, user_confirmed) ==
    LET provider_reply == ProviderChat(behaviour, acc.provider_chats + 1)
        acc1 == [acc EXCEPT !.provider_chats = @ + 1]
    IN IF provider_reply.kind = "FinalText"
       THEN [acc1 EXCEPT !.final_text = provider_reply.text]
       ELSE LET acc2 == [acc1 EXCEPT !.tool_rounds = @ + 1]
            IN IF RoundLimitExceeded(acc2.tool_rounds)
               THEN [acc2 EXCEPT !.final_text = TooManyRoundsText]
               ELSE LET tool_results_before == Len(acc2.tool_results)
                        acc3 == ProcessCalls(
                                    [acc2 EXCEPT !.pending_confirmation = FALSE],
                                    provider_reply.calls, mode, user_confirmed)
                    IN IF UnproductiveConsentRound(acc3, tool_results_before)
                       THEN [acc3 EXCEPT !.final_text = ConfirmationRequiredText]
                       ELSE RunLoop(acc3, behaviour, mode, user_confirmed)

\* `audit-NNNNNN` and the other counter-minted ids: the prefix and the number
\* that format!("{}-{:06}") renders.
FormatId(prefix, n) == <<prefix, n>>

\* The ChatResponse built at the end of run_with_confirmation.  The
\* orchestrator is rebuilt for every call, so its own audit counter is 0.
ChatResponse(acc) ==
    [final_text |-> acc.final_text,
     audit_id |-> FormatId("audit", 1),
     consent_token |-> None,
     session_id |-> None,
     consent_request |-> None,
     execution_state |-> "",
     actions_executed |-> acc.executed_actions,
     proposed_actions |-> acc.proposed_actions,
     executed_action_events |-> acc.executed_action_events,
     action_events |-> acc.proposed_actions \o acc.executed_action_events]

run_with_confirmation(behaviour, mode, user_confirmed) ==
    RunLoop(RunStart, behaviour, mode, user_confirmed)

(***************************************************************************)
(* Specification of one orchestrator run: the provider behaviour, the mode *)
(* and user_confirmed are drawn from bounded sets and the run is applied.  *)
(***************************************************************************)
Modes == {"RequireConfirmation", "BestEffort"}

\* Names a provider proposes in the orchestrator runs: a ReadOnly tool, a
\* LocalActions tool and a name that is not in the registry.
ProposedNames == {"echo", "file.write_text", "mystery.op"}

CallLists == {[i \in DOMAIN s |-> ToolCall(s[i])] : s \in SeqsUpTo(ProposedNames, MaxCalls)}

Replies == {FinalText("done")} \cup {ToolCalls(cs) : cs \in CallLists}

Behaviours == {<<first, later>> : first \in Replies, later \in Replies}

\* No writer or reader of the store file exists.
FsIdle ==
    /\ fs_lock = None
    /\ fs_dir = None
    /\ fs_inodes = <<>>
    /\ fs_writer = None
    /\ fs_reader = None

\* No MCP server is registered and no child was spawned.
McpIdle ==
    /\ mcp_servers = <<>>
    /\ mcp_processes = <<>>
    /\ mcp_counter = 0
    /\ os_alive = {}
    /\ next_pid = 1
    /\ restarts = 0
    /\ mcp_normalized = {}
    /\ mcp_exited = {}
    /\ mcp_last = None

IdKinds == {"sess", "consent", "audit", "mcp"}

\* A process that has minted nothing, on an empty store directory.
IdsIdle ==
    /\ minted = [k \in IdKinds |-> <<>>]
    /\ at_start = [k \in IdKinds |-> {}]

\* No single function call is under way.
CallIdle ==
    /\ call_in = None
    /\ call_out = None

\* The ids of each kind in the four store files.
IdsOnDisk(ss, cs, as, ms) ==
    [k \in IdKinds |->
        CASE k = "sess" -> {ss[i].id : i \in DOMAIN ss}
          [] k = "consent" -> {cs[i].record.consent_id : i \in DOMAIN cs}
          [] k = "audit" -> {as[i].audit_id : i \in DOMAIN as}
          [] k = "mcp" -> {ms[i].id : i \in DOMAIN ms}]

\* The ids of the records a step pushed onto a store file.
Pushed(old, new, Id(_)) ==
    IF Len(new) > Len(old)
    THEN [i \in 1..(Len(new) - Len(old)) |-> Id(new[Len(old) + i])]
    ELSE <<>>

\* The history of minted ids: a step that constructs a new service starts a
\* new process on the store as it is; any other step adds the ids it pushed.
IdsTrack ==
    IF restarts' # restarts
    THEN /\ minted' = [k \in IdKinds |-> <<>>]
         /\ at_start' = IdsOnDisk(sessions', pending_consents', audit', mcp_servers')
    ELSE /\ at_start' = at_start
         /\ minted' =
              [k \in IdKinds |->
                  minted[k] \o
                  CASE k = "sess" -> Pushed(sessions, sessions', LAMBDA r : r.id)
                    [] k = "consent" ->
                          Pushed(pending_consents, pending_consents',
                                 LAMBDA r : r.record.consent_id)
                    [] k = "audit" -> Pushed(audit, audit', LAMBDA r : r.audit_id)
                    [] k = "mcp" -> Pushed(mcp_servers, mcp_servers', LAMBDA r : r.id)]

OrchIdle ==
    /\ orch_in = None
    /\ orch_out = None

\* The service is not part of an orchestrator run: its state stays as
\* constructed on an empty store.
SvcIdle ==
    /\ pending_consents = <<>>
    /\ sessions = <<>>
    /\ audit = <<>>
    /\ provider_state = [active_provider |-> None, configs |-> <<>>]
    /\ consent_counter = 0
    /\ session_counter = 0
    /\ synthetic_audit_counter = 0
    /\ now = 0
    /\ ticks = 0
    /\ last = None

OrchInit ==
    /\ orch_in \in [behaviour : Behaviours, mode : Modes, user_confirmed : BOOLEAN]
    /\ orch_out = None
    /\ SvcIdle
    /\ FsIdle
    /\ McpIdle
    /\ IdsIdle
    /\ CallIdle

OrchRun ==
    /\ orch_out = None
    /\ LET acc == run_with_confirmation(orch_in.behaviour, orch_in.mode,
                                        orch_in.user_confirmed)
       IN orch_out' = Some([response |-> ChatResponse(acc), run |-> acc])
    /\ UNCHANGED <<orch_in, svcVars, fsVars, mcpVars>>

OrchNext == OrchRun /\ IdsTrack /\ UNCHANGED callVars

SpecOrch == OrchInit /\ [][OrchNext]_vars

(***************************************************************************)
(* Claims about one orchestrator run (checked under SpecOrch)              *)
(***************************************************************************)
IsPrefix(s, t) == Len(s) <= Len(t) /\ SubSeq(t, 1, Len(s)) = s

CallNames(calls) == [i \in DOMAIN calls |-> calls[i].name]

RECURSIVE RoundCalls(_, _)
\* The names of the calls of the provider's first k replies, in order.
RoundCalls(behaviour, k) ==
    IF k = 0 THEN <<>>
    ELSE RoundCalls(behaviour, k - 1) \o CallNames(ProviderChat(behaviour, k).calls)

OrchDone == orch_out # None
OrchRunOut == orch_out[1].run
OrchResponse == orch_out[1].response

\* C6: an orchestrator run processes the calls of at most MAX_TOOL_ROUNDS = 4
\* provider replies; when the provider answers with tool calls a fifth time,
\* none of those calls is recorded, authorized or executed, the provider is
\* not invoked again and the run ends with the bounded-termination text.
BoundedLoop ==
    OrchDone =>
        LET r == OrchRunOut
            b == orch_in.behaviour
        IN /\ r.provider_chats <= MAX_TOOL_ROUNDS + 1
           /\ IsPrefix(r.requested_tool_calls, RoundCalls(b, MAX_TOOL_ROUNDS))
           /\ Len(r.policy_decisions) = Len(r.requested_tool_calls)
           /\ Len(r.proposed_actions) = Len(r.requested_tool_calls)
           /\ Len(r.tool_results) <= Len(r.requested_tool_calls)
           /\ ( /\ r.provider_chats = MAX_TOOL_ROUNDS + 1
                /\ ProviderChat(b, MAX_TOOL_ROUNDS + 1).kind = "ToolCalls"
                => /\ r.final_text = TooManyRoundsText
                   /\ r.requested_tool_calls = RoundCalls(b, MAX_TOOL_ROUNDS) )

\* A run in which the provider asked for tools five times and four rounds ran.
BoundedLoopWitness ==
    /\ OrchDone
    /\ OrchRunOut.provider_chats = MAX_TOOL_ROUNDS + 1
    /\ OrchRunOut.final_text = TooManyRoundsText
    /\ Len(OrchRunOut.tool_results) >= MAX_TOOL_ROUNDS
    /\ ProviderChat(orch_in.behaviour, MAX_TOOL_ROUNDS + 1).calls # <<>>

\* C7 as stated: every entry of actions_executed names a tool whose policy
\* decision in the run was allow, and a tool whose decision was
\* require-confirmation appears in proposed_actions only.
ActionsExecutedOnlyAllowed ==
    OrchDone =>
        LET r == OrchRunOut
            resp == OrchResponse
        IN /\ \A i \in DOMAIN resp.actions_executed :
                \E j \in DOMAIN r.policy_decisions :
                    /\ r.policy_decisions[j].tool_name = resp.actions_executed[i]
                    /\ r.policy_decisions[j].decision = "allow"
           /\ \A j \in DOMAIN r.policy_decisions :
                r.policy_decisions[j].decision = "require_confirmation" =>
                    /\ \E k \in DOMAIN resp.proposed_actions :
                          /\ resp.proposed_actions[k].tool_name = r.policy_decisions[j].tool_name
                          /\ resp.proposed_actions[k].status = "consent_required"
                    /\ \A k \in DOMAIN resp.executed_action_events :
                          resp.executed_action_events[k].tool_name # r.policy_decisions[j].tool_name

\* The entry of actions_executed that belongs to a policy decision.
DecisionLogEntry(d) ==
    CASE d.decision = "allow" -> d.tool_name
      [] d.decision = "require_confirmation" ->
            "confirm_required:" \o d.tool_name \o ":" \o d.reason[1]
      [] d.decision = "deny" -> "denied:" \o d.tool_name \o ":" \o d.reason[1]

\* C7 (amended): actions_executed has one entry per processed call, in order:
\* the bare tool name when the decision was allow, confirm_required:<tool>:<reason>
\* when it was require-confirmation, denied:<tool>:<reason> when it was deny;
\* a tool whose decision was require-confirmation has a consent_required event
\* in proposed_actions, no executed event and no bare-name entry.
ActionsExecutedIsDecisionLog ==
    OrchDone =>
        LET r == OrchRunOut
            resp == OrchResponse
        IN /\ Len(resp.actions_executed) = Len(r.policy_decisions)
           /\ \A i \in DOMAIN resp.actions_executed :
                resp.actions_executed[i] = DecisionLogEntry(r.policy_decisions[i])
           /\ \A j \in DOMAIN r.policy_decisions :
                r.policy_decisions[j].decision = "require_confirmation" =>
                    /\ resp.proposed_actions[j].tool_name = r.policy_decisions[j].tool_name
                    /\ resp.proposed_actions[j].status = "consent_required"
                    /\ \A k \in DOMAIN resp.executed_action_events :
                          resp.executed_action_events[k].tool_name # r.policy_decisions[j].tool_name
                    /\ \A k \in DOMAIN resp.actions_executed :
                          resp.actions_executed[k] # r.policy_decisions[j].tool_name

\* A run with an executed call and a consent-gated call in its response.
ActionsExecutedWitness ==
    /\ OrchDone
    /\ \E j \in DOMAIN OrchRunOut.policy_decisions :
          OrchRunOut.policy_decisions[j].decision = "require_confirmation"
    /\ \E j \in DOMAIN OrchRunOut.policy_decisions :
          OrchRunOut.policy_decisions[j].decision = "allow"
    /\ \E j \in DOMAIN OrchRunOut.policy_decisions :
          OrchRunOut.policy_decisions[j].decision = "deny"

(***************************************************************************)
(* AgentService (agent/src/lib.rs): consents, sessions, audit, providers.  *)
(* The store is a FileStorage whose reads and writes succeed.              *)
(***************************************************************************)
CONSENT_TTL_SECS == 300

ChatMessage(role, content) == [role |-> role, content |-> content]

ProviderConfig(provider_name) ==
    [provider_name |-> provider_name, model |-> None]

ChatRequestOf(session_id, messages, provider_name, mode) ==
    [session_id |-> session_id, messages |-> messages,
     provider_config |-> ProviderConfig(provider_name), mode |-> mode]

\* A chat or consent call as the caller and the orchestrator saw it: the
\* consent token and the ChatRequest given, the arguments handed to the
\* orchestrator, Ok or Err with its string, the ChatResponse, and for
\* consent.list the status filter and the records returned.
CallRecord(op, token, request, replayed, ok, error, response) ==
    [op |-> op, token |-> token, request |-> request, replayed |-> replayed,
     ok |-> ok, error |-> error, response |-> response,
     filter |-> None, listing |-> <<>>]

\* Orchestrator::run treating the request as already confirmed by the user.
runConfirmed(behaviour, mode) == run_with_confirmation(behaviour, mode, TRUE)

\* Orchestrator::run
run(behaviour, mode) == run_with_confirmation(behaviour, mode, FALSE)

next_synthetic_audit_id(counter) == FormatId("audit", counter + 1)
next_consent_id(counter) == FormatId("consent", counter + 1)
next_session_id(counter) == FormatId("sess", counter + 1)

\* The first lines of chat_request: an empty provider name is replaced by
\* the active provider, when there is one.
EffectiveRequest(params, state) ==
    IF params.provider_config.provider_name = "" /\ state.active_provider # None
    THEN [params EXCEPT !.provider_config.provider_name = state.active_provider[1]]
    ELSE params

\* The index of the first session with this id, or 0.
SessionPosition(items, session_id) ==
    IF \E i \in DOMAIN items : items[i].id = session_id
    THEN CHOOSE i \in DOMAIN items :
            /\ items[i].id = session_id
            /\ \A j \in 1..(i - 1) : items[j].id # session_id
    ELSE 0

\* An append that puts the request's messages before the session's.
append_messages_to_session_first(items, request) ==
    IF request.session_id = None THEN items
    ELSE LET idx == SessionPosition(items, request.session_id[1])
         IN IF idx = 0 THEN items
            ELSE [items EXCEPT ![idx].messages = request.messages \o @]

append_messages_to_session_if_requested(items, request) ==
    IF request.session_id = None THEN items
    ELSE LET idx == SessionPosition(items, request.session_id[1])
         IN IF idx = 0 THEN items
            ELSE [items EXCEPT ![idx].messages = @ \o request.messages]

append_assistant_message_to_session_if_requested(items, session_id, content) ==
    IF session_id = None THEN items
    ELSE LET idx == SessionPosition(items, session_id[1])
         IN IF idx = 0 THEN items
            ELSE [items EXCEPT
                    ![idx].messages = Append(@, ChatMessage("assistant", content))]

\* An AuditEntry whose session_id is dropped.
AuditEntryWithoutSession(response, provider) ==
    [audit_id |-> response.audit_id,
     session_id |-> None,
     provider |-> provider,
     policy_decisions |->
        [i \in DOMAIN response.proposed_actions |->
            <<response.proposed_actions[i].tool_name,
              response.proposed_actions[i].status,
              IF response.proposed_actions[i].reason = None THEN ""
              ELSE response.proposed_actions[i].reason[1]>>],
     proposed_tool_calls |->
        [i \in DOMAIN response.proposed_actions |->
            response.proposed_actions[i].tool_name],
     executed_actions |-> response.actions_executed]

\* The AuditEntry pushed by persist_audit_from_response.  A policy decision
\* "tool:status:reason" is kept as its three parts.
AuditEntry(response, provider) ==
    [audit_id |-> response.audit_id,
     session_id |-> response.session_id,
     provider |-> provider,
     policy_decisions |->
        [i \in DOMAIN response.proposed_actions |->
            <<response.proposed_actions[i].tool_name,
              response.proposed_actions[i].status,
              IF response.proposed_actions[i].reason = None THEN ""
              ELSE response.proposed_actions[i].reason[1]>>],
     proposed_tool_calls |->
        [i \in DOMAIN response.proposed_actions |->
            response.proposed_actions[i].tool_name],
     executed_actions |-> response.actions_executed]

\* persist_audit_from_response starting from an empty list, as it does when
\* the log cannot be read.
persist_audit_from_empty(audits, response, provider) ==
    <<AuditEntry(response, provider)>>

\* persist_audit_from_response with a log that is read and written without
\* error: the entries read, and the new entry pushed after them.
persist_audit_from_response(audits, response, provider) ==
    Append(audits, AuditEntry(response, provider))

ConsentRequiredEvent(evt) == evt.status = "consent_required"

\* A consent record created already approved.
NewConsentRecordPreApproved(consent_id, request, first, timestamp) ==
    [consent_id |-> consent_id,
     session_id |-> request.session_id,
     requested_at_unix_seconds |-> timestamp,
     expires_at_unix_seconds |-> timestamp + CONSENT_TTL_SECS,
     tool_name |-> first.tool_name,
     capability_tier |-> first.capability_tier,
     arguments_preview |-> first.arguments_preview,
     status |-> "approved",
     rationale |-> IF first.reason = None THEN "explicit consent required"
                   ELSE first.reason[1]]

\* The PendingConsentRecord pushed by attach_or_create_consent.
NewConsentRecord(consent_id, request, first, timestamp) ==
    [consent_id |-> consent_id,
     session_id |-> request.session_id,
     requested_at_unix_seconds |-> timestamp,
     expires_at_unix_seconds |-> timestamp + CONSENT_TTL_SECS,
     tool_name |-> first.tool_name,
     capability_tier |-> first.capability_tier,
     arguments_preview |-> first.arguments_preview,
     status |-> "pending",
     rationale |-> IF first.reason = None THEN "explicit consent required"
                   ELSE first.reason[1]]

\* build_consent_request: the scope, the extra confirmation and the expiry
\* of the request; human_summary and risk_factors are texts for the user.
build_consent_request(proposed_actions, expires_at_unix_seconds, ttl_seconds) ==
    LET pending == SelectSeq(proposed_actions, ConsentRequiredEvent)
    IN [scope |-> "once_exact_request",
        requires_extra_confirmation_click |->
            \E i \in DOMAIN pending :
                pending[i].capability_tier \in {"LocalActions", "SystemActions"},
        expires_at_unix_seconds |-> expires_at_unix_seconds,
        ttl_seconds |-> ttl_seconds]

\* An attach that never mints a consent.
attach_or_create_consent_never(items, counter, request, response, timestamp) ==
    [items |-> items, counter |-> counter,
     response |-> [response EXCEPT !.consent_token = None,
                                   !.consent_request = None]]

\* attach_or_create_consent: the consent list, the counter and the response
\* after the call.
attach_or_create_consent(items, counter, request, response, timestamp) ==
    LET pending_events == SelectSeq(response.proposed_actions, ConsentRequiredEvent)
    IN IF pending_events = <<>>
       THEN [items |-> items, counter |-> counter,
             response |-> [response EXCEPT !.consent_token = None,
                                           !.consent_request = None]]
       ELSE LET consent_id == next_consent_id(counter)
                state == [record |-> NewConsentRecord(consent_id, request,
                                                      pending_events[1], timestamp),
                          chat_request |-> request]
            IN [items |-> Append(items, state), counter |-> counter + 1,
                response |->
                    [response EXCEPT
                        !.consent_token = Some(consent_id),
                        !.consent_request = Some(build_consent_request(
                            response.proposed_actions,
                            Some(timestamp + CONSENT_TTL_SECS),
                            Some(CONSENT_TTL_SECS)))]]

\* The index of the first consent with this id, or 0.
ConsentPosition(items, consent_id) ==
    IF \E i \in DOMAIN items : items[i].record.consent_id = consent_id
    THEN CHOOSE i \in DOMAIN items :
            /\ items[i].record.consent_id = consent_id
            /\ \A j \in 1..(i - 1) : items[j].record.consent_id # consent_id
    ELSE 0

\* A pending check that lets an approved record through.
ConsentIsPendingOrApproved(record) == record.status \in {"pending", "approved"}

\* `items[idx].record.status != "pending"`, negated
ConsentIsPending(record) == record.status = "pending"

\* An expiry test that never fires.
ConsentNeverExpired(record, t) == FALSE

\* `expires_at_unix_seconds > 0 && now > expires_at_unix_seconds`
ConsentExpiredAt(record, t) ==
    record.expires_at_unix_seconds > 0 /\ t > record.expires_at_unix_seconds

\* A mark that refuses an expired consent without writing the expiry.
mark_or_find_pending_consent_expiry_unwritten(items, consent_id, new_status, t) ==
    LET idx == ConsentPosition(items, consent_id)
    IN IF idx = 0
       THEN [ok |-> FALSE, error |-> "consent_not_found", items |-> items,
             out |-> None]
       ELSE IF ~ConsentIsPending(items[idx].record)
       THEN [ok |-> FALSE,
             error |-> "consent_not_pending:" \o items[idx].record.status,
             items |-> items, out |-> None]
       ELSE IF ConsentExpiredAt(items[idx].record, t)
       THEN [ok |-> FALSE, error |-> "consent_expired", items |-> items,
             out |-> None]
       ELSE LET marked == [items EXCEPT ![idx].record.status = new_status]
            IN [ok |-> TRUE, error |-> "", items |-> marked,
                out |-> Some(marked[idx])]

\* mark_or_find_pending_consent: Ok(out) or Err(error), and the consent list
\* on disk after the call.
mark_or_find_pending_consent(items, consent_id, new_status, t) ==
    LET idx == ConsentPosition(items, consent_id)
    IN IF idx = 0
       THEN [ok |-> FALSE, error |-> "consent_not_found", items |-> items,
             out |-> None]
       ELSE IF ~ConsentIsPending(items[idx].record)
       THEN [ok |-> FALSE,
             error |-> "consent_not_pending:" \o items[idx].record.status,
             items |-> items, out |-> None]
       ELSE IF ConsentExpiredAt(items[idx].record, t)
       THEN [ok |-> FALSE, error |-> "consent_expired",
             items |-> [items EXCEPT ![idx].record.status = "expired"],
             out |-> None]
       ELSE LET marked == [items EXCEPT ![idx].record.status = new_status]
            IN [ok |-> TRUE, error |-> "", items |-> marked,
                out |-> Some(marked[idx])]

DeniedText == "User denied consent for requested actions."

\* A denial that reports the denied tool as executed.
response_for_denial_executed(pending, audit_id) ==
    LET event == ActionEvent(pending.record.tool_name,
                             pending.record.capability_tier, "denied",
                             Some(pending.record.rationale),
                             pending.record.arguments_preview, None)
    IN [final_text |-> DeniedText,
        audit_id |-> audit_id,
        consent_token |-> None,
        session_id |-> pending.record.session_id,
        consent_request |-> None,
        execution_state |-> "denied",
        actions_executed |-> <<pending.record.tool_name>>,
        proposed_actions |-> <<event>>,
        executed_action_events |-> <<event>>,
        action_events |-> <<event, event>>]

\* The ChatResponse built by response_for_denial.
response_for_denial(pending, audit_id) ==
    LET event == ActionEvent(pending.record.tool_name,
                             pending.record.capability_tier, "denied",
                             Some(pending.record.rationale),
                             pending.record.arguments_preview, None)
    IN [final_text |-> DeniedText,
        audit_id |-> audit_id,
        consent_token |-> None,
        session_id |-> pending.record.session_id,
        consent_request |-> None,
        execution_state |-> "denied",
        actions_executed |->
            <<"denied:" \o pending.record.tool_name \o ":" \o pending.record.rationale>>,
        proposed_actions |-> <<event>>,
        executed_action_events |-> <<>>,
        action_events |-> <<event>>]

\* The arguments of the replay, with the mode replaced.
ReplayArgumentsBestEffort(req) ==
    [messages |-> req.messages, provider_config |-> req.provider_config,
     mode |-> "BestEffort", user_confirmed |-> TRUE]

\* The arguments chat_approve hands to run_with_confirmation.
ReplayArguments(req) ==
    [messages |-> req.messages, provider_config |-> req.provider_config,
     mode |-> req.mode, user_confirmed |-> TRUE]

\* The view of one record in consent.list at time t.
ConsentListView(record, t) ==
    IF record.status = "pending" /\ ConsentExpiredAt(record, t)
    THEN [record EXCEPT !.status = "expired"]
    ELSE record

RECURSIVE SortByRequestedAt(_)
\* sort_by_key(requested_at_unix_seconds): a stable ascending sort.
SortByRequestedAt(items) ==
    IF items = <<>> THEN <<>>
    ELSE LET least == CHOOSE i \in DOMAIN items :
                        /\ \A j \in DOMAIN items :
                              items[i].requested_at_unix_seconds
                                  <= items[j].requested_at_unix_seconds
                        /\ \A j \in 1..(i - 1) :
                              items[j].requested_at_unix_seconds
                                  > items[i].requested_at_unix_seconds
             rest == SubSeq(items, 1, least - 1) \o SubSeq(items, least + 1, Len(items))
         IN <<items[least]>> \o SortByRequestedAt(rest)

Reverse(s) == [i \in DOMAIN s |-> s[Len(s) + 1 - i]]

\* consent_list(params) at time t
consent_list(items, status, session_id, t) ==
    LET views == [i \in DOMAIN items |-> ConsentListView(items[i].record, t)]
        StatusMatches(c) == status = None \/ c.status = status[1]
        SessionMatches(c) == session_id = None \/ c.session_id = session_id
    IN Reverse(SortByRequestedAt(
           SelectSeq(SelectSeq(views, StatusMatches), SessionMatches)))

\* The index of the first audit entry with this id, or 0.
AuditPosition(items, audit_id) ==
    IF \E i \in DOMAIN items : items[i].audit_id = audit_id
    THEN CHOOSE i \in DOMAIN items :
            /\ items[i].audit_id = audit_id
            /\ \A j \in 1..(i - 1) : items[j].audit_id # audit_id
    ELSE 0

\* audit_get: Some(entry), or None for "audit entry not found"
audit_get(items, audit_id) ==
    LET idx == AuditPosition(items, audit_id)
    IN IF idx = 0 THEN None ELSE Some(items[idx])

(***************************************************************************)
(* Specification of one AgentService on its own store directory: callers   *)
(* issue the operations in any order with arguments from bounded sets, the *)
(* provider answers each run with any behaviour of ServiceBehaviours, and  *)
(* the clock advances between calls.                                       *)
(***************************************************************************)
\* What the provider does in a run of the service: answers at once; asks
\* for a ReadOnly tool and a LocalActions tool in one reply; asks for a
\* SystemActions tool.  Each behaviour ends with a final text once its
\* tools produced results.
ServiceBehaviours ==
    { <<FinalText("done")>>,
      <<ToolCalls(<<ToolCall("echo"), ToolCall("file.write_text")>>),
        FinalText("done")>>,
      <<ToolCalls(<<ToolCall("desktop.app.activate")>>), FinalText("done")>> }

SessionIds == {FormatId("sess", n) : n \in 1..MaxSessions}
SessionChoices == {None} \cup {Some(id) : id \in SessionIds}
\* Consent tokens presented by callers: every id the service can mint and
\* one it never mints.
ConsentTokens == {FormatId("consent", n) : n \in 1..(MaxConsents + 1)}
RequestProviderNames == {"", "openai"}
RequestMessages == <<ChatMessage("user", "do it")>>
AppendedMessages == <<ChatMessage("user", "more")>>
IsAppendedMessage(m) == m = AppendedMessages[1]
\* The clock advances to the last second of a consent's life or past it.
StatusFilters == {None, Some("pending"), Some("expired")}
ClockSteps == {CONSENT_TTL_SECS, CONSENT_TTL_SECS + 1}

SvcInit ==
    /\ orch_in = None
    /\ orch_out = None
    /\ SvcIdle
    /\ FsIdle
    /\ McpIdle
    /\ IdsIdle
    /\ CallIdle

\* chat_request: the handler of chat.request, for a request with these
\* messages
chat_request_of(messages, session_id, provider_name, mode, behaviour) ==
    LET given == ChatRequestOf(session_id, messages, provider_name, mode)
        params == EffectiveRequest(given, provider_state)
        sessions1 == append_messages_to_session_if_requested(sessions, params)
    IN /\ \E acc \in {run(behaviour, params.mode)} :
          \E attached \in {attach_or_create_consent(
                  pending_consents, consent_counter, params,
                  [ChatResponse(acc) EXCEPT
                      !.audit_id = next_synthetic_audit_id(synthetic_audit_counter),
                      !.session_id = params.session_id],
                  now)} :
          \E response \in {[attached.response EXCEPT
                  !.execution_state =
                      IF attached.response.consent_token # None
                      THEN "awaiting_consent" ELSE "completed"]} :
            /\ pending_consents' = attached.items
            /\ consent_counter' = attached.counter
            /\ synthetic_audit_counter' = synthetic_audit_counter + 1
            /\ sessions' = append_assistant_message_to_session_if_requested(
                               sessions1, response.session_id, response.final_text)
            /\ audit' = persist_audit_from_response(
                            audit, response, params.provider_config.provider_name)
            /\ last' = Some(CallRecord("chat_request", None, Some(given),
                               Some([messages |-> params.messages,
                                     provider_config |-> params.provider_config,
                                     mode |-> params.mode, user_confirmed |-> FALSE]),
                               TRUE, "", Some(response)))
       /\ UNCHANGED <<provider_state, session_counter, clockVars, orchVars, fsVars, mcpVars>>

\* chat.request with the one user message of RequestMessages
chat_request(session_id, provider_name, mode, behaviour) ==
    chat_request_of(RequestMessages, session_id, provider_name, mode, behaviour)

\* chat.request, explored while the counters are within the bounds
ChatRequest(session_id, provider_name, mode, behaviour) ==
    /\ synthetic_audit_counter < MaxAudits
    /\ chat_request(session_id, provider_name, mode, behaviour)
    /\ consent_counter' <= MaxConsents

\* chat.approve and consent.approve, which calls it
ChatApprove(consent_token, behaviour) ==
    \E found \in {mark_or_find_pending_consent(pending_consents, consent_token,
                                               "approved", now)} :
       /\ pending_consents' = found.items
       /\ IF ~found.ok
          THEN /\ last' = Some(CallRecord("chat_approve", Some(consent_token),
                                  None, None, FALSE, found.error, None))
               /\ UNCHANGED <<sessions, audit, synthetic_audit_counter>>
          ELSE LET pending == found.out[1]
                   req == pending.chat_request
                   args == ReplayArguments(req)
               IN \E acc \in {run_with_confirmation(behaviour, args.mode,
                                                        args.user_confirmed)} :
                     \E response \in {[ChatResponse(acc) EXCEPT
                            !.audit_id =
                                next_synthetic_audit_id(synthetic_audit_counter),
                            !.session_id = pending.record.session_id,
                            !.execution_state = "completed",
                            !.consent_token = None,
                            !.consent_request = None]} :
                        /\ synthetic_audit_counter' = synthetic_audit_counter + 1
                        /\ sessions' =
                              append_assistant_message_to_session_if_requested(
                                  sessions, response.session_id, response.final_text)
                        /\ audit' = persist_audit_from_response(
                                        audit, response,
                                        req.provider_config.provider_name)
                        /\ last' = Some(CallRecord("chat_approve",
                                           Some(consent_token), None, Some(args),
                                           TRUE, "", Some(response)))
       /\ UNCHANGED <<provider_state, consent_counter, session_counter,
                      clockVars, orchVars, fsVars, mcpVars>>

\* chat.deny and consent.deny, which calls it
ChatDeny(consent_token) ==
    \E found \in {mark_or_find_pending_consent(pending_consents, consent_token,
                                               "denied", now)} :
       /\ pending_consents' = found.items
       /\ IF ~found.ok
          THEN /\ last' = Some(CallRecord("chat_deny", Some(consent_token),
                                  None, None, FALSE, found.error, None))
               /\ UNCHANGED <<sessions, audit, synthetic_audit_counter>>
          ELSE \E response \in {response_for_denial(
                        found.out[1],
                        next_synthetic_audit_id(synthetic_audit_counter))} :
                  /\ synthetic_audit_counter' = synthetic_audit_counter + 1
                  /\ audit' = persist_audit_from_response(
                                  audit, response,
                                  found.out[1].chat_request.provider_config.provider_name)
                  /\ sessions' = append_assistant_message_to_session_if_requested(
                                     sessions, response.session_id,
                                     response.final_text)
                  /\ last' = Some(CallRecord("chat_deny", Some(consent_token),
                                     None, None, TRUE, "", Some(response)))
       /\ UNCHANGED <<provider_state, consent_counter, session_counter,
                      clockVars, orchVars, fsVars, mcpVars>>

\* consent.list
ConsentList(status) ==
    /\ last' = Some([CallRecord("consent_list", None, None, None, TRUE, "", None)
                        EXCEPT !.filter = status,
                               !.listing = consent_list(pending_consents, status,
                                                        None, now)])
    /\ UNCHANGED <<storeVars, counterVars, clockVars, orchVars, fsVars, mcpVars>>

\* sessions_create: the handler of sessions.create
sessions_create ==
    /\ sessions' = Append(sessions,
                          [id |-> next_session_id(session_counter), messages |-> <<>>])
    /\ session_counter' = session_counter + 1
    /\ last' = None
    /\ UNCHANGED <<pending_consents, audit, provider_state, consent_counter,
                   synthetic_audit_counter, clockVars, orchVars, fsVars, mcpVars>>

\* sessions.create, explored while the counter is within the bound
SessionsCreate ==
    /\ session_counter < MaxSessions
    /\ sessions_create

\* sessions.messages.append
SessionsMessagesAppend(session_id) ==
    LET idx == SessionPosition(sessions, session_id)
    IN /\ IF idx = 0
          THEN /\ last' = None
               /\ UNCHANGED sessions
          ELSE /\ Len(SelectSeq(sessions[idx].messages, IsAppendedMessage)) < MaxAppends
               /\ sessions' = [sessions EXCEPT ![idx].messages = @ \o AppendedMessages]
               /\ last' = None
       /\ UNCHANGED <<pending_consents, audit, provider_state, counterVars,
                      clockVars, orchVars, fsVars, mcpVars>>

\* providers.set
ProvidersSet(provider_name) ==
    /\ provider_state' = [provider_state EXCEPT !.active_provider = Some(provider_name)]
    /\ last' = None
    /\ UNCHANGED <<pending_consents, sessions, audit, counterVars, clockVars,
                   orchVars, fsVars, mcpVars>>

\* providers.config.set
ProvidersConfigSet(provider_name, config_json) ==
    /\ provider_state' =
          [active_provider |->
              IF provider_state.active_provider = None THEN Some(provider_name)
              ELSE provider_state.active_provider,
           configs |->
              [n \in DOMAIN provider_state.configs \cup {provider_name} |->
                  IF n = provider_name THEN config_json
                  ELSE provider_state.configs[n]]]
    /\ last' = None
    /\ UNCHANGED <<pending_consents, sessions, audit, counterVars, clockVars,
                   orchVars, fsVars, mcpVars>>

\* Time passes between two calls.
Tick(d) ==
    /\ ticks < MaxTicks
    /\ now' = now + d
    /\ ticks' = ticks + 1
    /\ last' = None
    /\ UNCHANGED <<storeVars, counterVars, orchVars, fsVars, mcpVars>>

ChatCalls ==
    \/ \E session_id \in SessionChoices, provider_name \in RequestProviderNames,
          mode \in Modes, behaviour \in ServiceBehaviours :
            ChatRequest(session_id, provider_name, mode, behaviour)
    \/ \E consent_token \in ConsentTokens, behaviour \in ServiceBehaviours :
            ChatApprove(consent_token, behaviour)
    \/ \E consent_token \in ConsentTokens : ChatDeny(consent_token)

\* The consent lifecycle: chat.request, the resolutions, consent.list and
\* the passage of time.
ConsentNext ==
    /\ \/ ChatCalls
       \/ \E status \in StatusFilters : ConsentList(status)
       \/ \E d \in ClockSteps : Tick(d)
    /\ IdsTrack
    /\ UNCHANGED callVars

SpecConsent == SvcInit /\ [][ConsentNext]_vars

\* The chat calls among session and provider operations, at one instant.
ServiceNext ==
    /\ \/ ChatCalls
       \/ SessionsCreate
       \/ \E session_id \in SessionIds : SessionsMessagesAppend(session_id)
       \/ ProvidersSet("openai")
       \/ ProvidersConfigSet("openai", JsonArguments(JObject(<<>>)))
    /\ IdsTrack
    /\ UNCHANGED callVars

SpecService == SvcInit /\ [][ServiceNext]_vars

(***************************************************************************)
(* Claims about the consent lifecycle (checked under SpecConsent)          *)
(***************************************************************************)
ResolutionOps == {"chat_approve", "chat_deny"}
StatusSetBy(op) == IF op = "chat_approve" THEN "approved" ELSE "denied"
TerminalStatuses == {"approved", "denied", "expired"}
GatedTiers == {"LocalActions", "SystemActions"}

\* The step just taken was a chat.approve or chat.deny presenting this token.
ResolutionOf(token) ==
    /\ last' # None
    /\ last'[1].op \in ResolutionOps
    /\ last'[1].token = Some(token)

\* A failed call: no response, no orchestrator run, nothing persisted or minted.
FailedWithoutEffect(call) ==
    /\ ~call.ok
    /\ call.response = None
    /\ call.replayed = None
    /\ UNCHANGED <<storeVars, counterVars>>

SingleUseStep ==
    \A token \in ConsentTokens :
        LET idx == ConsentPosition(pending_consents, token)
        IN (ResolutionOf(token) /\ idx # 0) =>
            LET record == pending_consents[idx].record
                call == last'[1]
            IN /\ ( /\ record.status = "pending"
                    /\ now <= record.expires_at_unix_seconds )
                  => /\ call.ok
                     /\ call.response # None
                     /\ pending_consents'[idx].record.status = StatusSetBy(call.op)
               /\ record.status \in {"approved", "denied"}
                  => /\ call.error = "consent_not_pending:" \o record.status
                     /\ FailedWithoutEffect(call)

\* C1: a chat.approve or chat.deny on a pending consent that has not expired
\* succeeds and sets the status to approved or denied; every later
\* chat.approve or chat.deny on that consent fails with
\* consent_not_pending:<that status>, returns no response, runs no
\* orchestrator (so no tool) and changes nothing on disk.
SingleUse == [][SingleUseStep]_vars

\* A second approve of an approved consent, just refused.
SingleUseWitness ==
    /\ last # None
    /\ last[1].op = "chat_approve"
    /\ last[1].error = "consent_not_pending:approved"

HasGatedExecution(events) ==
    \E i \in DOMAIN events :
        /\ events[i].status = "executed"
        /\ events[i].capability_tier \in GatedTiers

\* C2: a response carries an executed event for a LocalActions or
\* SystemActions tool only if it is the response of a successful
\* chat.approve whose consent record is approved and whose replay ran the
\* request stored with that record with user_confirmed = true; the responses
\* of chat.request and chat.deny carry none.
CapabilityGating ==
    (last # None /\ last[1].response # None) =>
        LET call == last[1]
            response == call.response[1]
        IN ( \/ HasGatedExecution(response.executed_action_events)
             \/ HasGatedExecution(response.action_events)
             \/ HasGatedExecution(response.proposed_actions) )
           => /\ call.op = "chat_approve"
              /\ call.ok
              /\ LET idx == ConsentPosition(pending_consents, call.token[1])
                 IN /\ idx # 0
                    /\ pending_consents[idx].record.status = "approved"
                    /\ call.replayed # None
                    /\ call.replayed[1].user_confirmed
                    /\ call.replayed[1].messages =
                           pending_consents[idx].chat_request.messages
                    /\ call.replayed[1].mode =
                           pending_consents[idx].chat_request.mode

\* An approval whose replay executed a gated tool.
CapabilityGatingWitness ==
    /\ last # None
    /\ last[1].op = "chat_approve"
    /\ last[1].ok
    /\ HasGatedExecution(last[1].response[1].executed_action_events)

ExpiredListed ==
    (last # None /\ last[1].op = "consent_list") =>
        \A i \in DOMAIN pending_consents :
            LET record == pending_consents[i].record
                Listed(status) ==
                    \E j \in DOMAIN last[1].listing :
                        /\ last[1].listing[j].consent_id = record.consent_id
                        /\ last[1].listing[j].status = status
            IN ( /\ record.status = "pending"
                 /\ now > record.expires_at_unix_seconds )
               => /\ last[1].filter \in {None, Some("expired")} => Listed("expired")
                  /\ ~Listed("pending")

ExpiredAttemptStep ==
    \A token \in ConsentTokens :
        LET idx == ConsentPosition(pending_consents, token)
        IN (ResolutionOf(token) /\ idx # 0) =>
            LET record == pending_consents[idx].record
            IN ( /\ record.status \in {"pending", "expired"}
                 /\ now > record.expires_at_unix_seconds )
               => last'[1].error = "consent_expired"

\* C4 as stated: consent.list reports a pending record past its expires_at
\* as expired, and every chat.approve or chat.deny on it, the first and any
\* later one, fails with consent_expired.
TtlEveryAttemptExpired == []ExpiredListed /\ [][ExpiredAttemptStep]_vars

TtlStep ==
    \A token \in ConsentTokens :
        LET idx == ConsentPosition(pending_consents, token)
        IN (ResolutionOf(token) /\ idx # 0) =>
            LET record == pending_consents[idx].record
                call == last'[1]
            IN /\ ( /\ record.status = "pending"
                    /\ now > record.expires_at_unix_seconds )
                  => /\ call.error = "consent_expired"
                     /\ ~call.ok
                     /\ call.response = None
                     /\ call.replayed = None
                     /\ pending_consents' =
                          [pending_consents EXCEPT ![idx].record.status = "expired"]
                     /\ UNCHANGED <<sessions, audit, counterVars>>
               /\ record.status = "expired"
                  => /\ call.error = "consent_not_pending:expired"
                     /\ FailedWithoutEffect(call)

\* C4 (amended): consent.list reports a pending record past its expires_at
\* as expired; the first chat.approve or chat.deny on it fails with
\* consent_expired and persists the status expired; every later attempt
\* fails with consent_not_pending:expired; no attempt runs the orchestrator.
TtlLaziness == []ExpiredListed /\ [][TtlStep]_vars

\* A later attempt on a consent that an earlier attempt marked expired.
TtlLazinessWitness ==
    /\ last # None
    /\ last[1].op \in ResolutionOps
    /\ last[1].error = "consent_not_pending:expired"
    /\ \E i \in DOMAIN pending_consents :
          /\ Some(pending_consents[i].record.consent_id) = last[1].token
          /\ now > pending_consents[i].record.expires_at_unix_seconds

SnapshotStored ==
    \A i \in DOMAIN pending_consents :
        LET item == pending_consents[i]
        IN /\ item.record.status \in {"pending"} \cup TerminalStatuses
           /\ item.chat_request.session_id = item.record.session_id
           /\ item.chat_request.messages = RequestMessages
           /\ item.chat_request.mode \in Modes
           /\ item.record.expires_at_unix_seconds =
                  item.record.requested_at_unix_seconds + CONSENT_TTL_SECS
           /\ \A j \in DOMAIN pending_consents :
                  pending_consents[j].record.consent_id = item.record.consent_id
                      => j = i

MonotoneStep ==
    /\ Len(pending_consents') \in {Len(pending_consents), Len(pending_consents) + 1}
    /\ \A i \in DOMAIN pending_consents :
          LET before == pending_consents[i]
              after == pending_consents'[i]
          IN /\ after.chat_request = before.chat_request
             /\ [after.record EXCEPT !.status = before.record.status] = before.record
             /\ \/ after.record.status = before.record.status
                \/ /\ before.record.status = "pending"
                   /\ after.record.status \in TerminalStatuses
    /\ \A i \in DOMAIN pending_consents' \ DOMAIN pending_consents :
          /\ pending_consents'[i].record.status = "pending"
          /\ last'[1].op = "chat_request"
          /\ last'[1].response[1].consent_token =
                 Some(pending_consents'[i].record.consent_id)

\* C5: a consent record is created by chat.request with status pending and
\* with the ChatRequest it was minted for; a step changes its status only
\* from pending to approved, denied or expired, and nothing else of it; an
\* approved, denied or expired record never changes again.
StatusMonotone == []SnapshotStored /\ [][MonotoneStep]_vars

\* An approve of a denied consent, just refused: the record stays denied.
StatusMonotoneWitness ==
    /\ last # None
    /\ last[1].op = "chat_approve"
    /\ last[1].error = "consent_not_pending:denied"
    /\ \E i \in DOMAIN pending_consents :
          /\ Some(pending_consents[i].record.consent_id) = last[1].token
          /\ pending_consents[i].record.status = "denied"

(***************************************************************************)
(* Claims about the chat calls among the other operations of the service   *)
(* (checked under SpecService)                                             *)
(***************************************************************************)
\* The messages, provider_config and mode of a ChatRequest.
RunArgumentsOf(request) ==
    [messages |-> request.messages, provider_config |-> request.provider_config,
     mode |-> request.mode]

RunArgumentsIn(call) ==
    [messages |-> call.replayed[1].messages,
     provider_config |-> call.replayed[1].provider_config,
     mode |-> call.replayed[1].mode]

ExactBindingStep ==
    /\ \A i \in DOMAIN pending_consents :
          /\ i \in DOMAIN pending_consents'
          /\ pending_consents'[i].record.consent_id =
                 pending_consents[i].record.consent_id
          /\ pending_consents'[i].chat_request = pending_consents[i].chat_request
    /\ \A i \in DOMAIN pending_consents' \ DOMAIN pending_consents :
          /\ last'[1].op = "chat_request"
          /\ last'[1].response[1].consent_token =
                 Some(pending_consents'[i].record.consent_id)
          /\ RunArgumentsOf(pending_consents'[i].chat_request) =
                 RunArgumentsIn(last'[1])
          /\ pending_consents'[i].chat_request.session_id =
                 last'[1].request[1].session_id
    /\ \A token \in ConsentTokens :
          ( /\ last' # None
            /\ last'[1].op = "chat_approve"
            /\ last'[1].token = Some(token)
            /\ last'[1].ok )
          => LET idx == ConsentPosition(pending_consents, token)
             IN /\ idx # 0
                /\ last'[1].replayed # None
                /\ RunArgumentsIn(last'[1]) =
                       RunArgumentsOf(pending_consents[idx].chat_request)
                /\ last'[1].replayed[1].user_confirmed

\* C3: the ChatRequest stored with a consent record is the request the
\* orchestrator ran when chat.request minted it, no later step changes it,
\* and a successful chat.approve hands the orchestrator the messages,
\* provider_config and mode of that stored request, whatever chat.request,
\* sessions.messages.append, providers.set or providers.config.set calls
\* were made in between.
ExactBinding == [][ExactBindingStep]_vars

\* An approval after a further chat.request, an append to the bound session
\* and a change of the active provider: the session has the appended
\* message between the request and the replay's answer, and the replay ran
\* with the provider name stored at mint time, not the active one.
ExactBindingWitness ==
    /\ last # None
    /\ last[1].op = "chat_approve"
    /\ last[1].ok
    /\ last[1].replayed[1].provider_config.provider_name = ""
    /\ provider_state.active_provider = Some("openai")
    /\ DOMAIN provider_state.configs # {}
    /\ Len(audit) = 3
    /\ \E k \in DOMAIN audit[1].policy_decisions :
          audit[1].policy_decisions[k][2] = "consent_required"
    /\ \E i \in DOMAIN sessions :
          /\ Some(sessions[i].id) = last[1].response[1].session_id
          /\ Len(sessions[i].messages) = 4
          /\ sessions[i].messages[1] = RequestMessages[1]
          /\ sessions[i].messages[3] = AppendedMessages[1]

\* The provider name of the request a response answers: the request as
\* chat.request ran it, or the request bound to the resolved consent.
BoundProviderOf(call) ==
    IF call.replayed # None
    THEN call.replayed[1].provider_config.provider_name
    ELSE LET idx == ConsentPosition(pending_consents, call.token[1])
         IN pending_consents[idx].chat_request.provider_config.provider_name

\* C8: when chat.request, a successful chat.approve or a successful
\* chat.deny has returned a response, audit.get(response.audit_id) finds an
\* entry, it is the only entry with that id, its session_id is the
\* response's and its provider is the provider name of the request that was
\* run or bound (after the active provider was filled in for an empty
\* name); the ids in the audit log are pairwise distinct, one per response.
AuditComplete ==
    /\ Len(audit) = synthetic_audit_counter
    /\ \A i, j \in DOMAIN audit : audit[i].audit_id = audit[j].audit_id => i = j
    /\ (last # None /\ last[1].response # None) =>
          LET call == last[1]
              response == call.response[1]
              got == audit_get(audit, response.audit_id)
          IN /\ got # None
             /\ Cardinality({i \in DOMAIN audit :
                                audit[i].audit_id = response.audit_id}) = 1
             /\ got[1].session_id = response.session_id
             /\ got[1].provider = BoundProviderOf(call)
             /\ got[1] = audit[Len(audit)]

\* A denial in a session, answering a request whose empty provider name was
\* filled in with the active provider: the third response of the service.
AuditCompleteWitness ==
    /\ last # None
    /\ last[1].op = "chat_deny"
    /\ last[1].ok
    /\ last[1].response[1].session_id # None
    /\ Len(audit) = 3
    /\ audit[3].provider = "openai"
    /\ \E i \in DOMAIN pending_consents :
          /\ Some(pending_consents[i].record.consent_id) = last[1].token
          /\ pending_consents[i].chat_request.provider_config.provider_name = "openai"

(***************************************************************************)
(* FileStorage (storage/src/lib.rs): write_json and read_json on one store *)
(* file, at the granularity of the file-system calls they make.  A file is *)
(* an inode holding a sequence of chunks; a path of the directory names an *)
(* inode; an open file keeps its inode when the path is renamed over.      *)
(***************************************************************************)
Writers == 1..NumWriters
Readers == 1..NumReaders

\* serde_json::to_string_pretty(value): the payload of writer w's k-th
\* write, written to the file in two chunks.
PayloadChunks == 2
Payload(w, k) == [c \in 1..PayloadChunks |-> <<w, k, c>>]

\* serde_json::from_str: the bytes parse exactly when they are one whole
\* payload.
IsPayload(bytes) ==
    /\ Len(bytes) = PayloadChunks
    /\ \A c \in 1..PayloadChunks :
          /\ bytes[c][3] = c
          /\ bytes[c][1] = bytes[1][1]
          /\ bytes[c][2] = bytes[1][2]

ReadDefault == [kind |-> "default", bytes |-> <<>>]
ReadOk(bytes) == [kind |-> "ok", bytes |-> bytes]
ReadInvalidData(bytes) == [kind |-> "invalid_data", bytes |-> bytes]

from_str(bytes) == IF IsPayload(bytes) THEN ReadOk(bytes) ELSE ReadInvalidData(bytes)

\* A write_json that writes the payload to the file itself.
path_in_place == "target"

\* `path.with_extension("tmp")`: the path fs::write is given
tmp_path == "tmp"

StoreInit ==
    /\ fs_lock = None
    /\ fs_dir = [target |-> None, tmp |-> None]
    /\ fs_inodes = <<>>
    /\ fs_writer = [w \in Writers |-> [pc |-> "idle", writes |-> 0, fd |-> 0,
                                      written |-> 0]]
    /\ fs_reader = [r \in Readers |-> [pc |-> "idle", reads |-> 0, fd |-> 0,
                                      buf |-> <<>>, result |-> None]]
    /\ OrchIdle
    /\ SvcIdle
    /\ McpIdle
    /\ IdsIdle
    /\ CallIdle

\* write_json is called and acquire_file_lock creates the lock file.
LockAcquire(w) ==
    /\ fs_writer[w].pc = "idle"
    /\ fs_writer[w].writes < MaxWrites
    /\ fs_lock = None
    /\ fs_lock' = Some(w)
    /\ fs_writer' = [fs_writer EXCEPT ![w].pc = "open", ![w].writes = @ + 1]
    /\ UNCHANGED <<fs_dir, fs_inodes, fs_reader>>

\* write_json is called and the lock file exists: the writer sleeps.
LockBusy(w) ==
    /\ fs_writer[w].pc = "idle"
    /\ fs_writer[w].writes < MaxWrites
    /\ fs_lock # None
    /\ fs_writer' = [fs_writer EXCEPT ![w].pc = "wait", ![w].writes = @ + 1]
    /\ UNCHANGED <<fs_lock, fs_dir, fs_inodes, fs_reader>>

\* A later iteration of the loop finds the lock file gone and creates it.
LockRetry(w) ==
    /\ fs_writer[w].pc = "wait"
    /\ fs_lock = None
    /\ fs_lock' = Some(w)
    /\ fs_writer' = [fs_writer EXCEPT ![w].pc = "open"]
    /\ UNCHANGED <<fs_dir, fs_inodes, fs_reader>>

\* A timeout that removes the lock file it waited for.
LockTimeoutRemovesLock(w) ==
    /\ fs_writer[w].pc = "wait"
    /\ fs_lock # None
    /\ fs_lock' = None
    /\ fs_writer' = [fs_writer EXCEPT ![w].pc = "idle"]
    /\ UNCHANGED <<fs_dir, fs_inodes, fs_reader>>

\* LOCK_WAIT_TIMEOUT has elapsed with the lock file still there: write_json
\* returns TimedOut.
LockTimeout(w) ==
    /\ fs_writer[w].pc = "wait"
    /\ fs_lock # None
    /\ fs_writer' = [fs_writer EXCEPT ![w].pc = "idle"]
    /\ UNCHANGED <<fs_lock, fs_dir, fs_inodes, fs_reader>>

\* fs::write opens its path: a new empty inode, or the existing one truncated.
WriteOpen(w) ==
    /\ fs_writer[w].pc = "open"
    /\ IF fs_dir[tmp_path] = None
       THEN /\ fs_inodes' = Append(fs_inodes, <<>>)
            /\ fs_dir' = [fs_dir EXCEPT ![tmp_path] = Some(Len(fs_inodes) + 1)]
            /\ fs_writer' = [fs_writer EXCEPT ![w].pc = "write",
                                              ![w].fd = Len(fs_inodes) + 1,
                                              ![w].written = 0]
       ELSE /\ fs_inodes' = [fs_inodes EXCEPT ![fs_dir[tmp_path][1]] = <<>>]
            /\ fs_writer' = [fs_writer EXCEPT ![w].pc = "write",
                                              ![w].fd = fs_dir[tmp_path][1],
                                              ![w].written = 0]
            /\ UNCHANGED fs_dir
    /\ UNCHANGED <<fs_lock, fs_reader>>

\* fs::write writes the next chunk of the payload.
WriteChunk(w) ==
    /\ fs_writer[w].pc = "write"
    /\ fs_writer[w].written < PayloadChunks
    /\ fs_inodes' = [fs_inodes EXCEPT ![fs_writer[w].fd] =
                        Append(@, Payload(w, fs_writer[w].writes)[fs_writer[w].written + 1])]
    /\ fs_writer' = [fs_writer EXCEPT ![w].written = @ + 1]
    /\ UNCHANGED <<fs_lock, fs_dir, fs_reader>>

\* fs::write or fs::rename fails: write_json returns the error.
WriteFail(w) ==
    /\ fs_writer[w].pc = "write"
    /\ fs_writer' = [fs_writer EXCEPT ![w].pc = "unlock"]
    /\ UNCHANGED <<fs_lock, fs_dir, fs_inodes, fs_reader>>

\* fs::rename(tmp, path)
Rename(w) ==
    /\ fs_writer[w].pc = "write"
    /\ fs_writer[w].written = PayloadChunks
    /\ fs_dir' = IF tmp_path = "target" THEN fs_dir
                 ELSE [fs_dir EXCEPT !["target"] = fs_dir[tmp_path],
                                     ![tmp_path] = None]
    /\ fs_writer' = [fs_writer EXCEPT ![w].pc = "unlock"]
    /\ UNCHANGED <<fs_lock, fs_inodes, fs_reader>>

\* FileLockGuard::drop removes the lock file.
LockRelease(w) ==
    /\ fs_writer[w].pc = "unlock"
    /\ fs_lock' = None
    /\ fs_writer' = [fs_writer EXCEPT ![w].pc = "idle"]
    /\ UNCHANGED <<fs_dir, fs_inodes, fs_reader>>

\* read_json is called: `if !path.exists() { return Ok(T::default()) }`
ReadExists(r) ==
    /\ fs_reader[r].pc = "idle"
    /\ fs_reader[r].reads < MaxReads
    /\ fs_reader' =
          IF fs_dir["target"] = None
          THEN [fs_reader EXCEPT ![r].reads = @ + 1, ![r].result = Some(ReadDefault)]
          ELSE [fs_reader EXCEPT ![r].reads = @ + 1, ![r].pc = "open",
                                 ![r].result = None]
    /\ UNCHANGED <<fs_lock, fs_dir, fs_inodes, fs_writer>>

\* fs::read_to_string opens the path.
ReadOpen(r) ==
    /\ fs_reader[r].pc = "open"
    /\ fs_reader' = [fs_reader EXCEPT ![r].pc = "read",
                                      ![r].fd = fs_dir["target"][1],
                                      ![r].buf = <<>>]
    /\ UNCHANGED <<fs_lock, fs_dir, fs_inodes, fs_writer>>

\* fs::read_to_string reads the next chunk of its open file.
ReadChunk(r) ==
    /\ fs_reader[r].pc = "read"
    /\ Len(fs_reader[r].buf) < Len(fs_inodes[fs_reader[r].fd])
    /\ fs_reader' = [fs_reader EXCEPT ![r].buf =
                        Append(@, fs_inodes[fs_reader[r].fd][Len(fs_reader[r].buf) + 1])]
    /\ UNCHANGED <<fs_lock, fs_dir, fs_inodes, fs_writer>>

\* fs::read_to_string reaches the end of the file and the bytes are parsed.
ReadEnd(r) ==
    /\ fs_reader[r].pc = "read"
    /\ Len(fs_reader[r].buf) >= Len(fs_inodes[fs_reader[r].fd])
    /\ fs_reader' = [fs_reader EXCEPT ![r].pc = "idle",
                                      ![r].result = Some(from_str(fs_reader[r].buf))]
    /\ UNCHANGED <<fs_lock, fs_dir, fs_inodes, fs_writer>>

StoreNext ==
    /\ \/ \E w \in Writers : LockAcquire(w)
       \/ \E w \in Writers : LockBusy(w)
       \/ \E w \in Writers : LockRetry(w)
       \/ \E w \in Writers : LockTimeout(w)
       \/ \E w \in Writers : WriteOpen(w)
       \/ \E w \in Writers : WriteChunk(w)
       \/ \E w \in Writers : WriteFail(w)
       \/ \E w \in Writers : Rename(w)
       \/ \E w \in Writers : LockRelease(w)
       \/ \E r \in Readers : ReadExists(r)
       \/ \E r \in Readers : ReadOpen(r)
       \/ \E r \in Readers : ReadChunk(r)
       \/ \E r \in Readers : ReadEnd(r)
    /\ UNCHANGED <<orchVars, svcVars, mcpVars>>
    /\ IdsTrack
    /\ UNCHANGED callVars

SpecStore == StoreInit /\ [][StoreNext]_vars

(***************************************************************************)
(* Claims about the file store (checked under SpecStore)                   *)
(***************************************************************************)
\* The payloads of the write_json calls made so far.
StartedPayloads ==
    UNION {{Payload(w, k) : k \in 1..fs_writer[w].writes} : w \in Writers}

\* C9: every read_json that has returned gave the default value or the
\* whole payload of one write_json call made before, never InvalidData (a
\* prefix of a payload, a mixture of two, or other bytes that do not
\* parse); and the file a reader opens, or is reading, always holds one
\* whole payload.
StoreAtomic ==
    /\ \A r \in Readers :
          /\ fs_reader[r].result # None =>
                LET res == fs_reader[r].result[1]
                IN /\ res.kind \in {"default", "ok"}
                   /\ res.kind = "ok" => res.bytes \in StartedPayloads
          /\ fs_reader[r].pc = "read" =>
                fs_inodes[fs_reader[r].fd] \in StartedPayloads
    /\ fs_dir["target"] # None =>
          fs_inodes[fs_dir["target"][1]] \in StartedPayloads

\* A read that returned a whole payload although the file was renamed over
\* while it was open, with one writer half way through the tmp file and
\* another waiting for the lock.
StoreAtomicWitness ==
    /\ \E r \in Readers :
          /\ fs_reader[r].result # None
          /\ fs_reader[r].result[1].kind = "ok"
          /\ fs_reader[r].result[1].bytes # fs_inodes[fs_dir["target"][1]]
    /\ \E w \in Writers :
          /\ fs_writer[w].pc = "write"
          /\ fs_writer[w].written = 1
    /\ \E w \in Writers : fs_writer[w].pc = "wait"

(***************************************************************************)
(* The counter-minted ids as text: format!("{}-{:06}") in the next_*_id    *)
(* functions and the parsing of hydrate_counters (agent/src/lib.rs).       *)
(***************************************************************************)
Digits == "0123456789"

DigitChar(d) == SubSeq(Digits, d + 1, d + 1)

IsDigit(c) == \E d \in 0..9 : DigitChar(d) = c

DigitValue(c) == CHOOSE d \in 0..9 : DigitChar(d) = c

RECURSIVE Decimal(_)
\* The decimal digits of n, without padding.
Decimal(n) ==
    IF n < 10 THEN DigitChar(n) ELSE Decimal(n \div 10) \o DigitChar(n % 10)

RECURSIVE ZeroPad(_, _)
\* `{:06}`: zeros on the left up to the width, nothing cut off.
ZeroPad(text, width) ==
    IF Len(text) >= width THEN text ELSE ZeroPad("0" \o text, width)

\* format!("<prefix>-{:06}", n) of the id FormatId(prefix, n)
IdText(id) == id[1] \o "-" \o ZeroPad(Decimal(id[2]), 6)

\* str::strip_prefix
strip_prefix(text, prefix) ==
    IF StartsWith(text, prefix)
    THEN Some(SubSeq(text, Len(prefix) + 1, Len(text)))
    ELSE None

RECURSIVE LastSegment(_)
\* text.rsplit('-').next(): what follows the last '-', or the whole text
LastSegment(text) ==
    IF text = "" THEN ""
    ELSE IF SubSeq(text, Len(text), Len(text)) = "-" THEN ""
    ELSE LastSegment(SubSeq(text, 1, Len(text) - 1))
            \o SubSeq(text, Len(text), Len(text))

RECURSIVE DigitsValue(_)
DigitsValue(text) ==
    IF text = "" THEN 0
    ELSE 10 * DigitsValue(SubSeq(text, 1, Len(text) - 1))
            + DigitValue(SubSeq(text, Len(text), Len(text)))

\* str::parse::<u64>() of a text without sign: Ok for one or more digits
parse_u64(text) ==
    IF text # "" /\ \A i \in 1..Len(text) : IsDigit(SubSeq(text, i, i))
    THEN Some(DigitsValue(text))
    ELSE None

\* The numeric suffix hydrate_counters reads from an id of a kind, if any:
\* what follows the last '-' for an audit id, what follows the prefix for the
\* others.
NumericSuffix(kind, id) ==
    IF kind = "audit"
    THEN parse_u64(LastSegment(IdText(id)))
    ELSE LET rest == strip_prefix(IdText(id), kind \o "-")
         IN IF rest = None THEN None ELSE parse_u64(rest[1])

\* A counter that construction leaves at 0 whatever the store holds.
CounterNotHydrated(kind, ids) == 0

\* hydrate_counters for one counter: the largest numeric suffix among the
\* ids on disk, 0 when there is none
HydratedCounter(kind, ids) ==
    LET suffixes == {NumericSuffix(kind, id)[1] :
                        id \in {x \in ids : NumericSuffix(kind, x) # None}}
    IN IF suffixes = {} THEN 0
       ELSE CHOOSE n \in suffixes : \A k \in suffixes : k <= n

(***************************************************************************)
(* AgentService (agent/src/lib.rs): the MCP server registry, the table of  *)
(* child processes and the construction and drop of the service.  A child  *)
(* is its pid; it has exited when its pid is not in os_alive.              *)
(***************************************************************************)
next_mcp_id(counter) == FormatId("mcp", counter + 1)

\* McpServerRecord: name, command and args are set by add and never changed;
\* what command and args make of a spawn is the input `spawned` of start.
McpServerRecord(id, status) == [id |-> id, status |-> status]

ServerIds == {FormatId("mcp", n) : n \in 1..MaxServers}

\* child.try_wait(): Some(status) when the child has exited
try_wait(pid) == IF pid \in os_alive THEN None ELSE Some("exited")

\* The ids of the tracked children that have exited.
ExitedIds(processes) ==
    {id \in DOMAIN processes : try_wait(processes[id]) # None}

\* The table without some ids.
WithoutIds(processes, ids) == [id \in DOMAIN processes \ ids |-> processes[id]]

\* The index of the first record with this id, or 0.
ServerPosition(items, server_id) ==
    IF \E i \in DOMAIN items : items[i].id = server_id
    THEN CHOOSE i \in DOMAIN items :
            /\ items[i].id = server_id
            /\ \A j \in 1..(i - 1) : items[j].id # server_id
    ELSE 0

\* set_mcp_server_status: the records written
set_mcp_server_status(items, server_id, status) ==
    LET idx == ServerPosition(items, server_id)
    IN IF idx = 0 THEN items ELSE [items EXCEPT ![idx].status = status]

\* A startup that leaves the records as the last service wrote them.
normalize_mcp_statuses_skipped(items) == items

\* normalize_mcp_statuses_on_startup: the records on disk afterwards
normalize_mcp_statuses_on_startup(items) ==
    [i \in DOMAIN items |->
        IF items[i].status = "running"
        THEN [items[i] EXCEPT !.status = "stopped"] ELSE items[i]]

\* A refresh that leaves the record of an exited child as it is.
RefreshedRecordKept(item, exited_ids) == item

\* The loop body of refresh_mcp_runtime_statuses for one record.
RefreshedRecord(item, exited_ids) ==
    IF item.id \in exited_ids /\ item.status = "running"
    THEN [item EXCEPT !.status = "stopped"] ELSE item

\* refresh_mcp_runtime_statuses: the records on disk afterwards
refresh_mcp_runtime_statuses(items, exited_ids) ==
    [i \in DOMAIN items |-> RefreshedRecord(items[i], exited_ids)]

\* hydrate_counters for mcp_counter
HydratedMcpCounter(items) ==
    HydratedCounter("mcp", {items[i].id : i \in DOMAIN items})

McpInit ==
    /\ mcp_servers = <<>>
    /\ mcp_processes = <<>>
    /\ mcp_counter = 0
    /\ os_alive = {}
    /\ next_pid = 1
    /\ restarts = 0
    /\ mcp_normalized = {}
    /\ mcp_exited = {}
    /\ mcp_last = None
    /\ OrchIdle
    /\ SvcIdle
    /\ FsIdle
    /\ IdsIdle
    /\ CallIdle

\* mcp_servers_add: the handler of mcp.servers.add
mcp_servers_add ==
    /\ mcp_servers' = Append(mcp_servers,
                             McpServerRecord(next_mcp_id(mcp_counter), "stopped"))
    /\ mcp_counter' = mcp_counter + 1
    /\ mcp_last' = None
    /\ UNCHANGED <<mcp_processes, os_alive, next_pid, restarts, mcp_normalized,
                   mcp_exited>>

\* mcp.servers.add, explored while the counter is within the bound
McpServersAdd ==
    /\ mcp_counter < MaxServers
    /\ mcp_servers_add

\* mcp_stop_server_process: the child is taken out of the table, killed and
\* reaped.
StopServerProcess(server_id) ==
    /\ mcp_processes' = WithoutIds(mcp_processes, {server_id})
    /\ os_alive' = IF server_id \in DOMAIN mcp_processes
                   THEN os_alive \ {mcp_processes[server_id]} ELSE os_alive

\* mcp.servers.remove
McpServersRemove(server_id) ==
    /\ StopServerProcess(server_id)
    /\ mcp_servers' = SelectSeq(mcp_servers, LAMBDA s : s.id # server_id)
    /\ mcp_exited' = mcp_exited \ {server_id}
    /\ mcp_last' = None
    /\ UNCHANGED <<mcp_counter, next_pid, restarts, mcp_normalized>>

\* A start that does not ask whether a child is tracked and running.
McpServersStartAnew(server_id, spawned) ==
    /\ mcp_last' = None
    /\ IF ServerPosition(mcp_servers, server_id) = 0
       THEN UNCHANGED <<mcp_servers, mcp_processes, os_alive, next_pid, mcp_exited>>
       ELSE IF ~spawned
       THEN /\ mcp_processes' = WithoutIds(mcp_processes, {server_id})
            /\ UNCHANGED <<mcp_servers, os_alive, next_pid, mcp_exited>>
       ELSE /\ next_pid <= MaxSpawns
            /\ mcp_processes' =
                  [id \in DOMAIN mcp_processes \cup {server_id} |->
                      IF id = server_id THEN next_pid ELSE mcp_processes[id]]
            /\ os_alive' = os_alive \cup {next_pid}
            /\ next_pid' = next_pid + 1
            /\ mcp_exited' = mcp_exited \ {server_id}
            /\ mcp_servers' = set_mcp_server_status(mcp_servers, server_id, "running")
    /\ UNCHANGED <<mcp_counter, restarts, mcp_normalized>>

\* mcp.servers.start; spawned says whether Command::spawn succeeds.
McpServersStart(server_id, spawned) ==
    /\ mcp_last' = None
    /\ IF ServerPosition(mcp_servers, server_id) = 0
       THEN UNCHANGED <<mcp_servers, mcp_processes, os_alive, next_pid, mcp_exited>>
       ELSE IF /\ server_id \in DOMAIN mcp_processes
               /\ try_wait(mcp_processes[server_id]) = None
       THEN /\ mcp_servers' = set_mcp_server_status(mcp_servers, server_id, "running")
            /\ UNCHANGED <<mcp_processes, os_alive, next_pid, mcp_exited>>
       ELSE IF ~spawned
       THEN /\ mcp_processes' = WithoutIds(mcp_processes, {server_id})
            /\ UNCHANGED <<mcp_servers, os_alive, next_pid, mcp_exited>>
       ELSE /\ next_pid <= MaxSpawns
            /\ mcp_processes' =
                  [id \in DOMAIN mcp_processes \cup {server_id} |->
                      IF id = server_id THEN next_pid ELSE mcp_processes[id]]
            /\ os_alive' = os_alive \cup {next_pid}
            /\ next_pid' = next_pid + 1
            /\ mcp_exited' = mcp_exited \ {server_id}
            /\ mcp_servers' = set_mcp_server_status(mcp_servers, server_id, "running")
    /\ UNCHANGED <<mcp_counter, restarts, mcp_normalized>>

\* A stop that reaps the child and leaves the record as it is.
McpServersStopStatusKept(server_id) ==
    /\ StopServerProcess(server_id)
    /\ mcp_exited' = mcp_exited \ {server_id}
    /\ mcp_last' = None
    /\ UNCHANGED <<mcp_servers, mcp_counter, next_pid, restarts, mcp_normalized>>

\* mcp.servers.stop
McpServersStop(server_id) ==
    /\ StopServerProcess(server_id)
    /\ mcp_servers' = set_mcp_server_status(mcp_servers, server_id, "stopped")
    /\ mcp_exited' = mcp_exited \ {server_id}
    /\ mcp_last' = None
    /\ UNCHANGED <<mcp_counter, next_pid, restarts, mcp_normalized>>

\* The refresh that mcp.servers.list and system.health begin with.
Refresh ==
    LET exited_ids == ExitedIds(mcp_processes)
    IN /\ mcp_processes' = WithoutIds(mcp_processes, exited_ids)
       /\ mcp_servers' = refresh_mcp_runtime_statuses(mcp_servers, exited_ids)

\* mcp.servers.list
McpServersList ==
    /\ Refresh
    /\ mcp_last' = Some([op |-> "mcp_servers_list",
                         exited |-> mcp_exited,
                         servers |-> mcp_servers'])
    /\ mcp_exited' = {}
    /\ UNCHANGED <<mcp_counter, os_alive, next_pid, restarts, mcp_normalized>>

\* The records of the consent file whose status is pending.
PendingRecords(items) ==
    {i \in DOMAIN items : items[i].record.status = "pending"}

\* A count that reports no consent at all.
HealthPendingConsentsNone(items) == 0

\* `read_pending_consents()?.len()`: the pending_consents of system.health
HealthPendingConsents(items) == Len(items)

\* system.health; pending_then is not in the response: it is the number of
\* pending records on disk when the call is made.
SystemHealth ==
    /\ Refresh
    /\ mcp_last' = Some([op |-> "system_health",
                         exited |-> mcp_exited,
                         pending_consents |-> HealthPendingConsents(pending_consents),
                         pending_then |-> Cardinality(PendingRecords(pending_consents)),
                         mcp_servers_total |-> Len(mcp_servers'),
                         mcp_servers_running |->
                            Len(SelectSeq(mcp_servers', LAMBDA s : s.status = "running"))])
    /\ mcp_exited' = {}
    /\ UNCHANGED <<mcp_counter, os_alive, next_pid, restarts, mcp_normalized>>

\* A tracked child exits on its own.
ChildExit(pid) ==
    /\ pid \in os_alive
    /\ os_alive' = os_alive \ {pid}
    /\ mcp_exited' = mcp_exited \cup
                      {id \in DOMAIN mcp_processes : mcp_processes[id] = pid}
    /\ mcp_last' = None
    /\ UNCHANGED <<mcp_servers, mcp_processes, mcp_counter, next_pid, restarts,
                   mcp_normalized>>

\* The service is dropped, which stops every tracked child, and a new
\* AgentService is constructed on the same store directory.
Restart ==
    /\ restarts < MaxRestarts
    /\ restarts' = restarts + 1
    /\ os_alive' = os_alive \ {mcp_processes[id] : id \in DOMAIN mcp_processes}
    /\ mcp_processes' = <<>>
    /\ mcp_counter' = HydratedMcpCounter(mcp_servers)
    /\ mcp_normalized' = {mcp_servers[i].id : i \in
                             {j \in DOMAIN mcp_servers : mcp_servers[j].status = "running"}}
    /\ mcp_servers' = normalize_mcp_statuses_on_startup(mcp_servers)
    /\ mcp_exited' = {}
    /\ mcp_last' = None
    /\ UNCHANGED next_pid

McpNext ==
    /\ \/ McpServersAdd
       \/ \E server_id \in ServerIds : McpServersRemove(server_id)
       \/ \E server_id \in ServerIds, spawned \in BOOLEAN :
             McpServersStart(server_id, spawned)
       \/ \E server_id \in ServerIds : McpServersStop(server_id)
       \/ McpServersList
       \/ SystemHealth
       \/ \E pid \in 1..MaxSpawns : ChildExit(pid)
       \/ Restart
    /\ UNCHANGED <<orchVars, svcVars, fsVars>>
    /\ IdsTrack
    /\ UNCHANGED callVars

SpecMcp == McpInit /\ [][McpNext]_vars

(***************************************************************************)
(* MCP status truth                                                        *)
(***************************************************************************)
\* The records on disk that carry status running.
RunningRecords(items) == {i \in DOMAIN items : items[i].status = "running"}

\* A step that constructs a new AgentService leaves no record running.
StartupStep ==
    restarts' # restarts => RunningRecords(mcp_servers') = {}

\* What a list or health response says of the server ids in ids: list returns
\* each of their records as stopped, health counts none of them as running.
ReportsStopped(response, ids) ==
    IF response.op = "mcp_servers_list"
    THEN \A i \in DOMAIN response.servers :
            response.servers[i].id \in ids => response.servers[i].status = "stopped"
    ELSE response.mcp_servers_running <=
            Cardinality({i \in DOMAIN mcp_servers' : mcp_servers'[i].id \notin ids})

\* A list or health step reports every server whose tracked child has exited
\* since the last report as stopped.
ReportStep ==
    mcp_last' # None => ReportsStopped(mcp_last'[1], mcp_exited)

\* C10: a step that constructs a new AgentService leaves no persisted MCP
\* record with status running, and the first mcp.servers.list or system.health
\* call after a tracked child has exited returns that child's record as stopped.
McpStatusTruth == [][StartupStep /\ ReportStep]_vars

\* A list or health step reports as stopped every server whose exited child is
\* still in the child table when the call is made.
TrackedReportStep ==
    mcp_last' # None => ReportsStopped(mcp_last'[1], ExitedIds(mcp_processes))

\* What holds of C10: startup leaves no record running, and a list or health
\* call reports an exited child's record as stopped while that child is still
\* in the child table.
McpStatusTruthWhileTracked == [][StartupStep /\ TrackedReportStep]_vars

\* A new service was constructed on a store with a running record, and a list
\* call has just answered after a tracked child exited.
McpStatusTruthWitness ==
    /\ mcp_normalized # {}
    /\ mcp_last # None
    /\ mcp_last[1].op = "mcp_servers_list"
    /\ mcp_last[1].exited # {}

\* The list call after a child exited and a start failed to spawn its successor.
McpStaleRunningWitness ==
    /\ mcp_last # None
    /\ mcp_last[1].op = "mcp_servers_list"
    /\ \E i \in DOMAIN mcp_last[1].servers :
          /\ mcp_last[1].servers[i].id \in mcp_last[1].exited
          /\ mcp_last[1].servers[i].status = "running"
          /\ mcp_last[1].servers[i].id \notin DOMAIN mcp_processes

\* The ids of the records on disk that carry status running.
RunningIds == {mcp_servers[i].id : i \in RunningRecords(mcp_servers)}

\* C18: in every reachable state of one AgentService, after any sequence of
\* mcp.servers.add, start, stop, remove and list, system.health and child
\* exits, every persisted MCP record with status running has a child handle
\* tracked under its id in the table of the service.
RunningHasChild == RunningIds \subseteq DOMAIN mcp_processes

\* A start whose spawn failed after the handle of an exited child was taken
\* out of the table: a handle is gone, nothing was written and no response
\* of list or health was made.
SpawnFailedStep ==
    /\ DOMAIN mcp_processes' # DOMAIN mcp_processes
    /\ DOMAIN mcp_processes' \subseteq DOMAIN mcp_processes
    /\ mcp_servers' = mcp_servers
    /\ mcp_last' = None
    /\ restarts' = restarts

\* A step from a state in which every running record has a handle leads to
\* such a state, unless it is a start whose spawn failed.
RunningHasChildStep ==
    (RunningHasChild /\ ~SpawnFailedStep) => RunningHasChild'

\* What holds of C18: every operation other than a start that fails to
\* spawn keeps the handle of every running record tracked.
RunningHasChildUnlessSpawnFails == [][RunningHasChildStep]_vars

\* A record is running with the handle of a live child tracked under its id,
\* the second child spawned for it.
RunningHasChildWitness ==
    /\ RunningIds # {}
    /\ next_pid > MaxSpawns
    /\ \A id \in RunningIds :
          id \in DOMAIN mcp_processes /\ mcp_processes[id] \in os_alive

\* A record is running and no child handle is tracked under its id.
RunningWithoutChildWitness ==
    \E id \in RunningIds : id \notin DOMAIN mcp_processes

(***************************************************************************)
(* The counters across a restart: every handler that mints an id, the      *)
(* handlers that take records off the disk, and the construction of a new  *)
(* service on the same store directory.                                    *)
(***************************************************************************)
MaxMinted == 2

MintedSessionIds == {FormatId("sess", n) : n \in 1..MaxMinted}
MintedConsentIds == {FormatId("consent", n) : n \in 1..MaxMinted}
MintedServerIds == {FormatId("mcp", n) : n \in 1..MaxMinted}

\* The provider answers at once, or proposes one SystemActions call.
IdsBehaviours ==
    { <<FinalText("done")>>,
      <<ToolCalls(<<ToolCall("desktop.app.activate")>>), FinalText("done")>> }

\* sessions.delete
SessionsDelete(session_id) ==
    /\ sessions' = SelectSeq(sessions, LAMBDA s : s.id # session_id)
    /\ last' = None
    /\ UNCHANGED <<pending_consents, audit, provider_state, counterVars,
                   clockVars, orchVars, fsVars, mcpVars>>

\* The service is dropped and a new AgentService is constructed on the same
\* store directory: every counter is hydrated from the ids on disk.
ServiceRestart ==
    /\ Restart
    /\ session_counter' =
          HydratedCounter("sess", {sessions[i].id : i \in DOMAIN sessions})
    /\ consent_counter' =
          HydratedCounter("consent", {pending_consents[i].record.consent_id :
                                         i \in DOMAIN pending_consents})
    /\ synthetic_audit_counter' =
          HydratedCounter("audit", {audit[i].audit_id : i \in DOMAIN audit})
    /\ last' = None
    /\ UNCHANGED <<storeVars, clockVars, orchVars, fsVars>>

IdsNext ==
    /\ \/ /\ sessions_create
          /\ session_counter' <= MaxMinted
       \/ \E session_id \in MintedSessionIds : SessionsDelete(session_id)
       \/ \E behaviour \in IdsBehaviours :
             /\ chat_request(None, "", "RequireConfirmation", behaviour)
             /\ synthetic_audit_counter' <= MaxMinted
             /\ consent_counter' <= MaxMinted
       \/ \E consent_id \in MintedConsentIds : ChatDeny(consent_id)
       \/ /\ mcp_servers_add
          /\ mcp_counter' <= MaxMinted
          /\ UNCHANGED <<orchVars, svcVars, fsVars>>
       \/ \E server_id \in MintedServerIds :
             /\ McpServersRemove(server_id)
             /\ UNCHANGED <<orchVars, svcVars, fsVars>>
       \/ ServiceRestart
    /\ IdsTrack
    /\ UNCHANGED callVars

SpecIds == SvcInit /\ [][IdsNext]_vars

\* The ids minted so far are in strictly increasing order of numeric suffix
\* and above every suffix that was on disk when the process started.
MintedInOrder ==
    \A k \in IdKinds : \A j \in DOMAIN minted[k] :
       /\ NumericSuffix(k, minted[k][j]) # None
       /\ \A i \in 1..(j - 1) :
             NumericSuffix(k, minted[k][i])[1] < NumericSuffix(k, minted[k][j])[1]
       /\ \A id \in at_start[k] :
             /\ NumericSuffix(k, id) # None
             /\ NumericSuffix(k, id)[1] < NumericSuffix(k, minted[k][j])[1]

\* An id a step mints is not the id of a record on disk before the step.
MintedFreshStep ==
    restarts' = restarts =>
       \A k \in IdKinds : \A j \in (Len(minted[k]) + 1)..Len(minted'[k]) :
          minted'[k][j] \notin
             IdsOnDisk(sessions, pending_consents, audit, mcp_servers)[k]

\* C11: within one process every minted session, consent, audit and mcp id has
\* a numeric suffix above every suffix of its kind minted earlier in the
\* process and above every suffix of its kind on disk when the service
\* started, and it is not the id of a record on disk when it is minted.
MonotonicIds == []MintedInOrder /\ [][MintedFreshStep]_vars

\* A second process that found ids of every kind on disk and has minted an id
\* of every kind, the session id after the newest session was deleted.
MonotonicIdsWitness ==
    /\ restarts = 1
    /\ \A k \in IdKinds : at_start[k] # {} /\ minted[k] # <<>>
    /\ \A i \in DOMAIN sessions : sessions[i].id \notin at_start["sess"]

(***************************************************************************)
(* StubActionBackend (actions/src/traits.rs): the project scope of the     *)
(* file tools.  A path is whether it is absolute and its components after  *)
(* the root; "." is CurDir, ".." is ParentDir, anything else a name.       *)
(***************************************************************************)
MaxPathLen == 2
MaxRootLen == 2

PathOf(abs, comps) == [abs |-> abs, comps |-> comps]

\* Path::new(".")
CurDirPath == PathOf(FALSE, <<".">>)

\* Path::components(): RootDir first for an absolute path
PathComponents(path) == (IF path.abs THEN <<"/">> ELSE <<>>) \o path.comps

\* Path::join: an absolute argument replaces the base
PathJoin(base, path) ==
    IF path.abs THEN path ELSE PathOf(base.abs, base.comps \o path.comps)

\* PathBuf::pop: the last component goes, if there is one after the root
PathPop(path) ==
    IF path.comps = <<>> THEN path
    ELSE PathOf(path.abs, SubSeq(path.comps, 1, Len(path.comps) - 1))

\* Path::parent
PathParent(path) == IF path.comps = <<>> THEN None ELSE Some(PathPop(path))

RECURSIVE NormalizeFrom(_, _)
NormalizeFrom(out, comps) ==
    IF comps = <<>> THEN out
    ELSE NormalizeFrom(
            CASE comps[1] = "." -> out
              [] comps[1] = ".." -> PathPop(out)
              [] OTHER -> PathOf(out.abs, Append(out.comps, comps[1])),
            Tail(comps))

\* normalize_path: CurDir is dropped, ParentDir pops, the rest is pushed
normalize_path(path) == NormalizeFrom(PathOf(path.abs, <<>>), path.comps)

\* A prefix test that every path passes.
starts_with_any(path, base) == TRUE

\* Path::starts_with: the components of base are a prefix of those of path
starts_with(path, base) == IsPrefix(PathComponents(base), PathComponents(path))

\* The root scoped_path works with: the project root, else the current
\* directory, else none.
ScopeRoot(project_root, current_dir) ==
    IF project_root # None THEN project_root ELSE current_dir

\* The candidate path: the request, joined to the root when it is relative.
\* A missing or empty request is ".".
Candidate(root, requested) ==
    LET rel == IF requested = None \/ (~requested[1].abs /\ requested[1].comps = <<>>)
               THEN CurDirPath ELSE requested[1]
    IN PathJoin(root, rel)

\* StubActionBackend::scoped_path
scoped_path(project_root, current_dir, requested) ==
    LET root == ScopeRoot(project_root, current_dir)
    IN IF root = None
       THEN [ok |-> FALSE, path |-> None, error |-> "unable to resolve project root"]
       ELSE LET normalized == normalize_path(Candidate(root[1], requested))
                normalized_root == normalize_path(root[1])
            IN IF ~starts_with(normalized, normalized_root)
               THEN [ok |-> FALSE, path |-> None,
                     error |-> "path_outside_project_scope"]
               ELSE [ok |-> TRUE, path |-> Some(normalized), error |-> ""]

FileTools ==
    {"file.list", "file.read_text", "file.read_csv", "file.read_json",
     "file.search_text", "file.stat", "file.write_text", "file.append_text",
     "file.mkdir"}

FsCall(call, path) == [call |-> call, path |-> path]

\* create_dir_all(parent) of file.write_text and file.append_text
ParentCalls(path) ==
    IF PathParent(path) = None THEN <<>>
    ELSE <<FsCall("create_dir_all(parent)", PathParent(path)[1])>>

\* The std::fs calls a file tool makes on its scoped path, in order, when
\* each of them succeeds.
FsCallsOf(name, path) ==
    CASE name \in {"file.list", "file.search_text"} -> <<FsCall("read_dir", path)>>
      [] name \in {"file.read_text", "file.read_csv", "file.read_json"} ->
            <<FsCall("read_to_string", path)>>
      [] name = "file.stat" -> <<FsCall("metadata", path)>>
      [] name = "file.write_text" -> ParentCalls(path) \o <<FsCall("write", path)>>
      [] name = "file.append_text" ->
            ParentCalls(path) \o <<FsCall("exists", path), FsCall("write", path)>>
      [] name = "file.mkdir" -> <<FsCall("create_dir_all", path)>>

FileToolResult(status, error, path, calls) ==
    [status |-> status, error |-> error, path |-> path, calls |-> calls]

\* tool_error: the ToolResult of a failure
tool_error(code, calls) == FileToolResult("error", code, None, calls)

\* StubActionBackend::execute_tool for the file tools.  io_ok says whether
\* the first std::fs call succeeds; query_given whether file.search_text has
\* a query that is not blank.
execute_file_tool(name, project_root, current_dir, requested, query_given, io_ok) ==
    IF name = "file.search_text" /\ ~query_given THEN tool_error("missing_query", <<>>)
    ELSE LET scoped == scoped_path(project_root, current_dir, requested)
         IN IF ~scoped.ok THEN tool_error(scoped.error, <<>>)
            ELSE LET calls == FsCallsOf(name, scoped.path[1])
                 IN IF io_ok \/ name = "file.search_text"
                    THEN FileToolResult("ok", "", scoped.path, calls)
                    ELSE tool_error("io_failed", <<calls[1]>>)

PathSymbols == {".", "..", "a", "b"}
RootSymbols == {"..", "a"}
RequestedPaths ==
    {None} \cup {Some(PathOf(abs, comps)) :
                    abs \in BOOLEAN, comps \in SeqsUpTo(PathSymbols, MaxPathLen)}
ProjectRoots ==
    {None} \cup {Some(PathOf(abs, comps)) :
                    abs \in BOOLEAN, comps \in SeqsUpTo(RootSymbols, MaxRootLen)}
\* std::env::current_dir(): an absolute directory, or an error
CurrentDirs == {None, Some(PathOf(TRUE, <<"b", "c">>))}

PathsInit ==
    /\ call_in \in [name : FileTools, project_root : ProjectRoots,
                    current_dir : CurrentDirs, requested : RequestedPaths,
                    query_given : BOOLEAN, io_ok : BOOLEAN]
    /\ call_out = None
    /\ OrchIdle
    /\ SvcIdle
    /\ FsIdle
    /\ McpIdle
    /\ IdsIdle

ExecuteFileTool ==
    /\ call_out = None
    /\ call_out' = Some(execute_file_tool(call_in.name, call_in.project_root,
                                          call_in.current_dir, call_in.requested,
                                          call_in.query_given, call_in.io_ok))
    /\ UNCHANGED <<call_in, orchVars, svcVars, fsVars, mcpVars, idVars>>

PathsNext == ExecuteFileTool

SpecPaths == PathsInit /\ [][PathsNext]_vars

(***************************************************************************)
(* Path containment (checked under SpecPaths)                              *)
(***************************************************************************)
\* The directory the process runs in, which relative paths are resolved in.
WorkingDir == PathOf(TRUE, <<"b", "c">>)

RECURSIVE Walk(_, _)
\* Where the components lead from a directory: "." stays, ".." goes to the
\* parent (the root is its own parent), a name goes down.
Walk(dir, comps) ==
    IF comps = <<>> THEN dir
    ELSE Walk(CASE comps[1] = "." -> dir
                [] comps[1] = ".." ->
                      IF dir = <<>> THEN dir ELSE SubSeq(dir, 1, Len(dir) - 1)
                [] OTHER -> Append(dir, comps[1]),
              Tail(comps))

\* The place in the file system a path given to std::fs names: the names from
\* the root down to it.
Location(path) == Walk(IF path.abs THEN <<>> ELSE WorkingDir.comps, path.comps)

\* The place is the directory or lies below it.
Inside(place, dir) == IsPrefix(dir, place)

\* The call reached scoped_path and a root was found.
ScopeResolved ==
    /\ ~(call_in.name = "file.search_text" /\ ~call_in.query_given)
    /\ ScopeRoot(call_in.project_root, call_in.current_dir) # None

\* Every std::fs call on the tool's path is inside the project root.
CallsContained(result, root) ==
    \A i \in DOMAIN result.calls :
       result.calls[i].call # "create_dir_all(parent)" =>
          Inside(Location(result.calls[i].path), Location(root))

\* A request that leads outside the project root is refused with
\* path_outside_project_scope before any std::fs call.
OutsideRefused(result, root) ==
    ~Inside(Location(Candidate(root, call_in.requested)), Location(root)) =>
       /\ result.status = "error"
       /\ result.error = "path_outside_project_scope"
       /\ result.calls = <<>>

Contained(result) ==
    ScopeResolved =>
       LET root == ScopeRoot(call_in.project_root, call_in.current_dir)[1]
       IN CallsContained(result, root) /\ OutsideRefused(result, root)

\* C12: for every requested path and project root, a file tool operates only
\* on a path inside the normalized project root, or returns an error with code
\* path_outside_project_scope without a file-system call.
PathContainment ==
    call_out # None => Contained(call_out[1])

\* What holds of C12: the same, when the root scoped_path works with is an
\* absolute path.
PathContainmentAbsoluteRoot ==
    (/\ call_out # None
     /\ ScopeResolved
     /\ ScopeRoot(call_in.project_root, call_in.current_dir)[1].abs)
       => Contained(call_out[1])

\* file.read_text of an absolute path outside the working directory, with
\* the project root ".", reads the file.
PathEscapeWitness ==
    /\ call_out # None
    /\ call_in.name = "file.read_text"
    /\ call_in.project_root # None
    /\ normalize_path(call_in.project_root[1]) = PathOf(FALSE, <<>>)
    /\ call_in.requested = Some(PathOf(TRUE, <<"a">>))
    /\ call_out[1].status = "ok"
    /\ call_out[1].calls = <<FsCall("read_to_string", PathOf(TRUE, <<"a">>))>>

(***************************************************************************)
(* Unknown tools (checked under SpecOrch)                                  *)
(***************************************************************************)
\* The rounds of the run whose calls were taken up.
RoundsTaken ==
    {k \in 1..MAX_TOOL_ROUNDS : k <= OrchRunOut.tool_rounds}

\* The provider's k-th reply holds calls, all of them of unknown tools.
OnlyUnknownCalls(k) ==
    LET reply == ProviderChat(orch_in.behaviour, k)
    IN /\ reply.kind = "ToolCalls"
       /\ reply.calls # <<>>
       /\ \A i \in DOMAIN reply.calls : ~has_tool(reply.calls[i].name)

\* C16: in every mode and with user_confirmed false or true (as in the
\* replay of an approval), every call the run takes up whose name is not in
\* the registry gets a denied event with reason unknown_tool, the action
\* backend is never invoked for it, and after a round of only such calls the
\* provider is invoked again.  The calls of a reply beyond MAX_TOOL_ROUNDS
\* are not taken up at all.
UnknownToolDenial ==
    OrchDone =>
        LET r == OrchRunOut
        IN /\ Len(r.proposed_actions) = Len(r.requested_tool_calls)
           /\ \A i \in DOMAIN r.requested_tool_calls :
                ~has_tool(r.requested_tool_calls[i]) =>
                    /\ r.proposed_actions[i].tool_name = r.requested_tool_calls[i]
                    /\ r.proposed_actions[i].status = "denied"
                    /\ r.proposed_actions[i].reason = Some("unknown_tool")
                    /\ r.policy_decisions[i].decision = "deny"
           /\ \A j \in DOMAIN r.tool_results : has_tool(r.tool_results[j].name)
           /\ \A j \in DOMAIN r.executed_action_events :
                has_tool(r.executed_action_events[j].tool_name)
           /\ \A j \in DOMAIN r.executed_actions :
                \A name \in ProposedNames :
                    ~has_tool(name) => r.executed_actions[j] # name
           /\ \A k \in RoundsTaken : OnlyUnknownCalls(k) => r.provider_chats > k

\* A replay (user_confirmed true) in which the first reply asks only for an
\* unknown tool and the second for a registered one, which was executed.
UnknownToolDenialWitness ==
    /\ OrchDone
    /\ orch_in.user_confirmed
    /\ OnlyUnknownCalls(1)
    /\ OrchRunOut.proposed_actions[1].reason = Some("unknown_tool")
    /\ OrchRunOut.provider_chats > 1
    /\ OrchRunOut.tool_results # <<>>

(***************************************************************************)
(* The audit log is append-only (checked under SpecService)                *)
(***************************************************************************)
AuditingOps == {"chat_request", "chat_approve", "chat_deny"}

\* The step just taken was a chat.request, or a chat.approve or chat.deny
\* that succeeded.
AuditedCall ==
    /\ last' # None
    /\ last'[1].op \in AuditingOps
    /\ last'[1].ok

\* The entries of the log stay, in their places and unchanged, and the step
\* adds one entry when it is an audited call and none when it is not.
AuditAppendStep ==
    /\ IsPrefix(audit, audit')
    /\ Len(audit') = Len(audit) + (IF AuditedCall THEN 1 ELSE 0)

MaxPairs == 2

\* The text every value stored under a sensitive key holds, and nothing else.
SecretText == "s3cr3t"

RECURSIVE Repeat(_, _)
Repeat(text, n) == IF n = 0 THEN "" ELSE text \o Repeat(text, n - 1)

\* A text longer than MAX_CHARS.
LongText == Repeat("0123456789", 20)

PlainValues == {JString("ok"), JString(LongText)}

\* Values stored under a sensitive key: a string, and the secret inside an
\* array and inside an object.
SecretValues ==
    {JString(SecretText), JArray(<<JString(SecretText)>>),
     JObject(<<<<"note", JString(SecretText)>>>>)}

\* Spellings of sensitive keys, in lower, upper and mixed case.
SensitiveSpellings == {"token", "API_KEY", "Password"}

\* Keys that are not sensitive; "tokens" only starts with a sensitive one.
PlainKeys == {"path", "tokens"}

FlatPairs ==
    {<<k, v>> : k \in SensitiveSpellings, v \in SecretValues}
        \cup {<<k, v>> : k \in PlainKeys, v \in PlainValues}

FlatObjects == {JObject(ps) : ps \in SeqsUpTo(FlatPairs, MaxPairs)}

\* Sensitive keys below the top: in an object under a plain key, in an array
\* of objects, and in an array inside an array.
NestedObjects ==
    {JObject(<<<<"options", o>>>>) : o \in FlatObjects}
        \cup {JObject(<<<<"items", JArray(<<JString("ok"), o>>)>>>>) : o \in FlatObjects}
        \cup {JObject(<<<<"items", JArray(<<JArray(<<o>>)>>)>>>>) : o \in FlatObjects}

ArgumentValues == FlatObjects \cup NestedObjects

\* The text of a value cut off before its closing brace, which is not JSON.
CutOff(value) ==
    NotJsonArguments(SubSeq(to_string(value), 1, Len(to_string(value)) - 1))

PreviewArguments ==
    {JsonArguments(v) : v \in ArgumentValues}
        \cup {CutOff(v) : v \in FlatObjects}

PreviewInit ==
    /\ call_in \in [call : {ToolCallWith(n, a) : n \in ProposedNames,
                                                 a \in PreviewArguments},
                    mode : Modes, user_confirmed : BOOLEAN]
    /\ call_out = None
    /\ OrchIdle
    /\ SvcIdle
    /\ FsIdle
    /\ McpIdle
    /\ IdsIdle

\* One run in which the provider proposes the call and then ends the run.
EmitEvents ==
    /\ call_out = None
    /\ call_out' = Some(ChatResponse(run_with_confirmation(
                            <<ToolCalls(<<call_in.call>>), FinalText("done")>>,
                            call_in.mode, call_in.user_confirmed)).action_events)
    /\ UNCHANGED <<call_in, orchVars, svcVars, fsVars, mcpVars, idVars>>

PreviewNext == EmitEvents

SpecPreview == PreviewInit /\ [][PreviewNext]_vars

(***************************************************************************)
(* Sanitization (checked under SpecPreview)                                *)
(***************************************************************************)
\* part occurs in text
Occurs(part, text) ==
    \E i \in 1..(Len(text) - Len(part) + 1) :
        SubSeq(text, i, i + Len(part) - 1) = part

\* The events of the run have been emitted.
Emitted == call_out # None

EventStatuses == {"approved", "executed", "consent_required", "denied"}

\* No emitted event shows a value stored under a sensitive key.
NoSecretShown ==
    \A i \in DOMAIN call_out[1] :
        /\ call_out[1][i].status \in EventStatuses
        /\ call_out[1][i].arguments_preview # None
        /\ ~Occurs(SecretText, call_out[1][i].arguments_preview[1])

\* The arguments hold a value under a sensitive key.
HoldsSecret == Occurs(SecretText, call_in.call.arguments_json.text)

\* C13: for every tool call and every arguments_json, the arguments_preview
\* of every emitted event (approved, executed, consent_required or denied)
\* contains no value stored under a sensitive key, in any case of the key and
\* at any depth of objects and arrays.
Sanitization == Emitted => NoSecretShown

\* C13, the part that holds: when the arguments_json is JSON, no preview of
\* an emitted event contains a value stored under a sensitive key.
SanitizationOfJson ==
    (Emitted /\ call_in.call.arguments_json.value # None) => NoSecretShown

\* A call whose JSON arguments hold a secret under a sensitive key written
\* in upper case, inside an array, was executed and its events show no secret.
SanitizationWitness ==
    /\ Emitted
    /\ call_in.call.arguments_json.value # None
    /\ HoldsSecret
    /\ Occurs("API_KEY", call_in.call.arguments_json.text)
    /\ Occurs("[", call_in.call.arguments_json.text)
    /\ \E i \in DOMAIN call_out[1] : call_out[1][i].status = "executed"
    /\ \E i \in DOMAIN call_out[1] : call_out[1][i].status = "approved"
    /\ NoSecretShown

\* Arguments that are not JSON hold a token, and an emitted event shows it.
SecretShownWitness ==
    /\ Emitted
    /\ call_in.call.arguments_json.value = None
    /\ \E i \in DOMAIN call_out[1] :
          Occurs(SecretText, call_out[1][i].arguments_preview[1])

(***************************************************************************)
(* Length of the preview (checked under SpecPreview)                       *)
(***************************************************************************)
\* The previews of the emitted events.
EmittedPreviews == {call_out[1][i].arguments_preview[1] : i \in DOMAIN call_out[1]}

\* The sanitized text of the arguments of the call.
SanitizedArguments == sanitize_arguments_preview(call_in.call.arguments_json)

PolicyNames ==
    RegistryNames \cup
    {"internal.secret", "internal.file.read", "internal.", "internal",
     "android.tap", "ios.tap", "desktop.app.activate.now", "desktop.app",
     "time", "text.", "echo.more", "echoes", "filex.read", "file.delete",
     "mystery.op", ""}

PolicyInit ==
    /\ call_in \in [name : PolicyNames, mode : Modes, user_confirmed : BOOLEAN]
    /\ call_out = None
    /\ OrchIdle
    /\ SvcIdle
    /\ FsIdle
    /\ McpIdle
    /\ IdsIdle

Decide ==
    /\ call_out = None
    /\ call_out' = Some([tier |-> capability_tier(call_in.name),
                         authorization |-> authorize(call_in.name, call_in.mode,
                                                     call_in.user_confirmed)])
    /\ UNCHANGED <<call_in, orchVars, svcVars, fsVars, mcpVars, idVars>>

PolicyNext == Decide

SpecPolicy == PolicyInit /\ [][PolicyNext]_vars

(***************************************************************************)
(* Decision table and tier assignment (checked under SpecPolicy)           *)
(***************************************************************************)
Decided == call_out # None

Reserved == StartsWith(call_in.name, "internal.")

\* The decision of the table as stated: a ReadOnly tool in mode
\* RequireConfirmation needs confirmation whether or not the user confirmed.
StatedDecision ==
    IF Reserved THEN "Deny"
    ELSE IF call_out[1].tier = "ReadOnly"
         THEN IF call_in.mode = "RequireConfirmation" THEN "RequireConfirmation"
              ELSE "Allow"
    ELSE IF call_in.user_confirmed THEN "Allow"
    ELSE "RequireConfirmation"

\* The decision of the table in which a confirmation of the user counts for
\* ReadOnly tools too.
ConfirmedDecision ==
    IF Reserved THEN "Deny"
    ELSE IF call_in.user_confirmed THEN "Allow"
    ELSE IF call_out[1].tier = "ReadOnly" /\ call_in.mode # "RequireConfirmation"
         THEN "Allow"
    ELSE "RequireConfirmation"

\* C14: for every tool name, mode and user_confirmed, authorize is Deny for a
\* name starting with internal.; for a ReadOnly tool Allow unless the mode is
\* RequireConfirmation, in which case RequireConfirmation; for a LocalActions
\* or SystemActions tool RequireConfirmation unless user_confirmed, in which
\* case Allow.
DecisionTable == Decided => call_out[1].authorization.kind = StatedDecision

\* C14, amended: as the table, except that a ReadOnly tool in mode
\* RequireConfirmation is RequireConfirmation only while user_confirmed is
\* false and Allow once it is true; Deny carries the reason "internal.* tools
\* are reserved".
DecisionTableConfirmed ==
    Decided =>
        /\ call_out[1].authorization.kind = ConfirmedDecision
        /\ Reserved => call_out[1].authorization.reason = "internal.* tools are reserved"

\* A ReadOnly tool in mode RequireConfirmation with user_confirmed true was
\* decided, and the decision is Allow.
DecisionTableWitness ==
    /\ Decided
    /\ call_in.name = "file.read_text"
    /\ call_in.mode = "RequireConfirmation"
    /\ call_in.user_confirmed
    /\ call_out[1].tier = "ReadOnly"
    /\ call_out[1].authorization.kind = "Allow"

\* The tier of the first rule that matches the name, in the stated order.
StatedTier ==
    LET name == call_in.name
        prefixed(p) == StartsWith(name, p)
    IN IF name = "desktop.app.activate" THEN "SystemActions"
       ELSE IF name \in {"desktop.app.list", "file.write_text", "file.append_text",
                         "file.mkdir"}
            THEN "LocalActions"
       ELSE IF prefixed("time.") \/ prefixed("math.") \/ prefixed("text.")
                  \/ prefixed("file.") \/ name = "echo"
            THEN "ReadOnly"
       ELSE IF prefixed("desktop.") \/ prefixed("android.") \/ prefixed("ios.")
            THEN "LocalActions"
       ELSE "SystemActions"

\* std::fs calls that write or change the file system
ChangingCalls == {"write", "create_dir_all"}

\* The tool of the name is a file tool that makes a changing call.
ChangesFiles ==
    /\ call_in.name \in FileTools
    /\ \E path \in {PathOf(TRUE, <<"a", "b">>)} :
          \E i \in DOMAIN FsCallsOf(call_in.name, path) :
              FsCallsOf(call_in.name, path)[i].call \in ChangingCalls

\* C15: the tier of every tool name is that of the first matching rule
\* (desktop.app.activate SystemActions; desktop.app.list and the three
\* writing file tools LocalActions; time., math., text., file. and echo
\* ReadOnly; other desktop., android., ios. LocalActions; the rest
\* SystemActions), and no file tool that writes or changes the file system
\* is ReadOnly.
TierAssignment ==
    Decided =>
        /\ call_out[1].tier = StatedTier
        /\ ChangesFiles => call_out[1].tier # "ReadOnly"

\* A file tool that writes was given its tier, which is LocalActions.
TierAssignmentWitness ==
    /\ Decided
    /\ call_in.name = "file.append_text"
    /\ ChangesFiles
    /\ call_out[1].tier = "LocalActions"

(***************************************************************************)
(* Provider configurations (lib.rs): providers.config.set, providers.set   *)
(* and providers.config.get.  A config_json is, like an arguments_json, a  *)
(* text together with what serde_json::from_str makes of it.               *)
(***************************************************************************)
\* The pairs of an object with the value under each key of keys replaced by
\* "[REDACTED]", as `obj.insert(key, ...)` does for a key the object holds.
RedactKeys(pairs, keys) ==
    [i \in DOMAIN pairs |->
        <<pairs[i][1], IF pairs[i][1] \in keys THEN Redacted ELSE pairs[i][2]>>]

RedactedConfigKeys == {"api_key", "token", "password", "secret"}

\* The keys provider_config_has_auth looks for.
AuthKeys == {"api_key", "token"}

\* A redaction of the keys that count as authentication only.
redact_provider_config_auth_only(config_json) ==
    IF config_json.value = None THEN config_json
    ELSE IF config_json.value[1].t # "object" THEN config_json
    ELSE JsonArguments(JObject(RedactKeys(config_json.value[1].pairs, AuthKeys)))

\* redact_provider_config_json: a text that is not JSON, or is not an object,
\* is returned as it is
redact_provider_config_json(config_json) ==
    IF config_json.value = None THEN config_json
    ELSE IF config_json.value[1].t # "object" THEN config_json
    ELSE JsonArguments(JObject(RedactKeys(config_json.value[1].pairs,
                                          RedactedConfigKeys)))

\* providers_config_get: the ProviderConfigRecord returned
providers_config_get(state, requested_name) ==
    LET provider_name ==
            IF requested_name # None THEN requested_name[1]
            ELSE IF state.active_provider # None THEN state.active_provider[1]
            ELSE "openai-stub"
    IN [provider_name |-> provider_name,
        is_active |-> state.active_provider = Some(provider_name),
        config_json |->
            redact_provider_config_json(
                IF provider_name \in DOMAIN state.configs
                THEN state.configs[provider_name]
                ELSE JsonArguments(JObject(<<>>)))]

ConfiguredNames == {"openai", "ollama-local"}

\* Configurations: the one of the test, inline secrets next to other fields,
\* no secret at all, a secret key below the top, the empty object, a JSON
\* text that is not an object and a text that is not JSON.
ConfigObjects ==
    {JObject(<<<<"api_key", JString("sk-test")>>,
               <<"api_key_env", JString("OPENAI_API_KEY")>>>>),
     JObject(<<<<"model", JString("m1")>>, <<"token", JString("s3cr3t")>>>>),
     JObject(<<<<"password", JString("pw")>>, <<"secret", JArray(<<JString("s3cr3t")>>)>>,
               <<"base_url", JString("http://localhost")>>>>),
     JObject(<<<<"model", JString("m1")>>>>),
     JObject(<<<<"options", JObject(<<<<"api_key", JString("sk-test")>>>>)>>>>),
     JObject(<<>>)}

ConfigTexts ==
    {JsonArguments(v) : v \in ConfigObjects}
        \cup {JsonArguments(JArray(<<JString("token")>>)),
              NotJsonArguments("{\"token\":\"s3cr3t\"")}

\* providers.config.set with its request kept
ConfigSet(provider_name, config_json) ==
    /\ ProvidersConfigSet(provider_name, config_json)
    /\ call_in' = [op |-> "providers_config_set",
                   provider_name |-> Some(provider_name),
                   config_json |-> Some(config_json)]
    /\ call_out' = None

\* providers.set
ActiveSet(provider_name) ==
    /\ ProvidersSet(provider_name)
    /\ call_in' = [op |-> "providers_set", provider_name |-> Some(provider_name),
                   config_json |-> None]
    /\ call_out' = None

\* providers.config.get with its request and its response kept
ConfigGet(requested_name) ==
    /\ call_in' = [op |-> "providers_config_get", provider_name |-> requested_name,
                   config_json |-> None]
    /\ call_out' = Some(providers_config_get(provider_state, requested_name))
    /\ last' = None
    /\ UNCHANGED <<storeVars, counterVars, clockVars, orchVars, fsVars, mcpVars>>

ConfigInit == SvcInit

ConfigNext ==
    /\ \/ \E provider_name \in ConfiguredNames, config_json \in ConfigTexts :
             ConfigSet(provider_name, config_json)
       \/ \E provider_name \in ConfiguredNames : ActiveSet(provider_name)
       \/ \E requested_name \in {None} \cup {Some(n) : n \in ConfiguredNames} :
             ConfigGet(requested_name)
    /\ IdsTrack

SpecConfig == ConfigInit /\ [][ConfigNext]_vars

(***************************************************************************)
(* Provider config round trip (checked under SpecConfig)                   *)
(***************************************************************************)
\* The keys of an object and the value under a key.
KeysOf(object) == {object.pairs[i][1] : i \in DOMAIN object.pairs}
FieldOf(object, key) ==
    object.pairs[CHOOSE i \in DOMAIN object.pairs : object.pairs[i][1] = key][2]

\* Inline secrets: the fields of the configuration object under these keys.
InlineSecretKeys == {"api_key", "token", "password", "secret"}

\* shown is given with every inline secret replaced and every other field
\* as it is.
MaskedCopy(given, shown) ==
    /\ shown.t = "object"
    /\ KeysOf(shown) = KeysOf(given)
    /\ \A key \in KeysOf(given) :
          FieldOf(shown, key) = IF key \in InlineSecretKeys THEN Redacted
                                ELSE FieldOf(given, key)

\* A providers.config.get for a named provider has just answered.
GetAnswered ==
    /\ call_out # None
    /\ call_in.op = "providers_config_get"
    /\ call_in.provider_name # None

\* The configuration stored for the provider the get named is a JSON object.
StoredObject ==
    /\ call_in.provider_name[1] \in DOMAIN provider_state.configs
    /\ provider_state.configs[call_in.provider_name[1]].value # None
    /\ provider_state.configs[call_in.provider_name[1]].value[1].t = "object"

\* The get returns the masked copy of the stored configuration, as JSON text.
GetMasks ==
    (GetAnswered /\ StoredObject) =>
        LET stored == provider_state.configs[call_in.provider_name[1]]
            shown == call_out[1].config_json
        IN /\ call_out[1].provider_name = call_in.provider_name[1]
           /\ shown.value # None
           /\ shown.text = to_string(shown.value[1])
           /\ MaskedCopy(stored.value[1], shown.value[1])

\* A set stores the configuration exactly as given, and a stored
\* configuration changes by a set for its provider only.
StoredAsGiven ==
    /\ call_in'.op = "providers_config_set" =>
          /\ call_in'.provider_name[1] \in DOMAIN provider_state'.configs
          /\ provider_state'.configs[call_in'.provider_name[1]] = call_in'.config_json[1]
    /\ \A n \in DOMAIN provider_state.configs :
          /\ n \in DOMAIN provider_state'.configs
          /\ provider_state'.configs[n] # provider_state.configs[n] =>
                /\ call_in'.op = "providers_config_set"
                /\ call_in'.provider_name = Some(n)

\* C19: after providers.config.set(name, cfg) with cfg a JSON object,
\* providers.config.get(name) returns cfg with the value of every inline
\* secret replaced by [REDACTED] and every other field unchanged, while the
\* stored configuration is cfg exactly as given.
ConfigRoundTrip == []GetMasks /\ [][StoredAsGiven]_vars

\* A get has answered for a provider whose stored configuration holds a
\* password, a secret and a base_url: the two are masked, the url is shown,
\* and the store still holds the password.
ConfigRoundTripWitness ==
    /\ GetAnswered
    /\ StoredObject
    /\ KeysOf(provider_state.configs[call_in.provider_name[1]].value[1])
          = {"password", "secret", "base_url"}
    /\ Occurs("\"pw\"", provider_state.configs[call_in.provider_name[1]].text)
    /\ ~Occurs("\"pw\"", call_out[1].config_json.text)
    /\ Occurs("http://localhost", call_out[1].config_json.text)
    /\ Occurs("\"password\":\"[REDACTED]\"", call_out[1].config_json.text)

(***************************************************************************)
(* JsonRpcServer::handle (ipc/src/lib.rs, ipc/src/jsonrpc.rs) for the      *)
(* methods tools.list and chat.approve, rpc.raw and unknown methods.  A    *)
(* params_json is given by what it deserializes to: the empty object, a    *)
(* ChatApproveRequest, a RawRpcRequest, or a text that is not JSON.        *)
(***************************************************************************)
MaxNesting == 2

\* jsonrpc::Id
IdNumber(n) == [kind |-> "Number", n |-> n]
IdString(s) == [kind |-> "String", s |-> s]
IdNull == [kind |-> "Null"]

EmptyParams == [kind |-> "empty"]
InvalidParams == [kind |-> "invalid"]
ApproveParams(consent_token) == [kind |-> "approve", consent_token |-> consent_token]
RawParams(id, method, params_json) ==
    [kind |-> "raw", id |-> id, method |-> method, params_json |-> params_json]

\* Request::new
Request(id, method, params_json) ==
    [jsonrpc |-> "2.0", id |-> id, method |-> method, params_json |-> params_json]

\* Response::success and Response::error
ResponseSuccess(id, result_json) ==
    [jsonrpc |-> "2.0", id |-> id, result_json |-> Some(result_json), error |-> None]
ResponseError(id, code, message) ==
    [jsonrpc |-> "2.0", id |-> id, result_json |-> None,
     error |-> Some([code |-> code, message |-> message])]

\* A nested request without an id given the id 0.
NestedIdZero(inner) == IdNumber(IF inner.id = None THEN 0 ELSE inner.id[1])

\* `Id::Number(inner.id.unwrap_or(1))`
NestedId(inner) == IdNumber(IF inner.id = None THEN 1 ELSE inner.id[1])

RECURSIVE handle(_)
\* JsonRpcServer::handle on a service that holds no consent: chat.approve
\* with a token fails with consent_not_found.
handle(request) ==
    CASE request.method = "tools.list" -> ResponseSuccess(request.id, "[tools]")
      [] request.method = "chat.approve" ->
            IF request.params_json.kind = "approve"
            THEN ResponseError(request.id, -32000, "consent_not_found")
            ELSE ResponseError(request.id, -32602, "invalid params")
      [] request.method = "rpc.raw" ->
            IF request.params_json.kind = "raw"
            THEN handle(Request(NestedId(request.params_json),
                                request.params_json.method,
                                request.params_json.params_json))
            ELSE ResponseError(request.id, -32602, "invalid params")
      [] OTHER -> ResponseError(request.id, -32601, "method not found")

OuterIds == {IdNumber(1), IdNumber(7), IdString("a"), IdNull}
InnerIds == {None, Some(1), Some(7), Some(9)}

\* Calls other than rpc.raw: one that succeeds, one that the service
\* refuses, one whose params are invalid and one of an unknown method.
PlainCalls ==
    {<<"tools.list", EmptyParams>>, <<"chat.approve", ApproveParams("consent-000001")>>,
     <<"chat.approve", EmptyParams>>, <<"chat.approve", InvalidParams>>,
     <<"no.such.method", EmptyParams>>}

RECURSIVE RawCalls(_)
\* The rpc.raw calls nested up to depth levels, and those with unusable params.
RawCalls(depth) ==
    IF depth = 0 THEN {}
    ELSE {<<"rpc.raw", InvalidParams>>, <<"rpc.raw", EmptyParams>>}
            \cup {<<"rpc.raw", RawParams(id, call[1], call[2])>> :
                     id \in InnerIds, call \in PlainCalls \cup RawCalls(depth - 1)}

RpcInit ==
    /\ call_in \in {Request(id, call[1], call[2]) :
                       id \in OuterIds, call \in PlainCalls \cup RawCalls(MaxNesting)}
    /\ call_out = None
    /\ OrchIdle
    /\ SvcIdle
    /\ FsIdle
    /\ McpIdle
    /\ IdsIdle

Handle ==
    /\ call_out = None
    /\ call_out' = Some(handle(call_in))
    /\ UNCHANGED <<call_in, orchVars, svcVars, fsVars, mcpVars, idVars>>

RpcNext == Handle

SpecRpc == RpcInit /\ [][RpcNext]_vars

(***************************************************************************)
(* The id of the reply to rpc.raw (checked under SpecRpc)                  *)
(***************************************************************************)
Handled == call_out # None

\* The request is an rpc.raw whose params are a RawRpcRequest.
RawNested == call_in.method = "rpc.raw" /\ call_in.params_json.kind = "raw"

\* C20: for every rpc.raw request the id of the response is the id of the
\* outer request, whatever id the nested request carries and whether the
\* nested call succeeds or fails.
RawReplyId ==
    (Handled /\ call_in.method = "rpc.raw") => call_out[1].id = call_in.id

RECURSIVE InnermostId(_, _, _)
\* The id of the innermost request: that of the request itself unless it is
\* an rpc.raw whose params are a RawRpcRequest, and then that of the request
\* nested in it, where a nested request without an id has the id 1.
InnermostId(id, method, params_json) ==
    IF method = "rpc.raw" /\ params_json.kind = "raw"
    THEN InnermostId(IdNumber(IF params_json.id = None THEN 1 ELSE params_json.id[1]),
                     params_json.method, params_json.params_json)
    ELSE id

\* What holds of C20: the reply to an rpc.raw carries the outer id when its
\* params are not a RawRpcRequest; otherwise it carries the id of the
\* innermost nested request, or 1 when that request has none, whether the
\* nested call succeeds or fails.
RawReplyIdOfNested ==
    (Handled /\ call_in.method = "rpc.raw") =>
        /\ call_out[1].id = InnermostId(call_in.id, call_in.method, call_in.params_json)
        /\ ~RawNested => call_out[1].id = call_in.id

\* An rpc.raw with id 7 nests a tools.list with id 9, which succeeds, and
\* the reply carries the id 9.
RawReplyIdWitness ==
    /\ Handled
    /\ RawNested
    /\ call_in.id = IdNumber(7)
    /\ call_in.params_json.id = Some(9)
    /\ call_in.params_json.method = "tools.list"
    /\ call_out[1].result_json # None
    /\ call_out[1].id = IdNumber(9)

(***************************************************************************)
(* JsonRpcServer::handle on an AgentService: the methods chat.request,     *)
(* chat.approve, chat.deny, sessions.create and tools.list, rpc.raw and    *)
(* unknown methods, with params that parse for the method and params that  *)
(* do not.                                                                 *)
(***************************************************************************)
\* The params of a chat.request: a ChatRequest without session.
ChatParams(mode) == [kind |-> "chat", mode |-> mode]

\* The methods handle knows, of those modelled here.
KnownMethods ==
    {"tools.list", "chat.request", "chat.approve", "chat.deny", "sessions.create",
     "rpc.raw"}

\* serde_json::from_str::<P>(&request.params_json) is Ok for the params type
\* P of the method.  A field that is an Option may be missing and a field P
\* does not have is ignored, so every JSON object is a SessionCreateRequest;
\* tools.list does not read its params.
ParamsParse(method, params_json) ==
    CASE method = "tools.list" -> TRUE
      [] method = "chat.request" -> params_json.kind = "chat"
      [] method \in {"chat.approve", "chat.deny"} -> params_json.kind = "approve"
      [] method = "sessions.create" -> params_json.kind # "invalid"
      [] method = "rpc.raw" -> params_json.kind = "raw"
      [] OTHER -> FALSE

RECURSIVE Unwrap(_)
\* The request the rpc.raw arm hands to handle, down to the request that is
\* not an rpc.raw with a RawRpcRequest in it.
Unwrap(request) ==
    IF request.method = "rpc.raw" /\ request.params_json.kind = "raw"
    THEN Unwrap(Request(NestedId(request.params_json), request.params_json.method,
                        request.params_json.params_json))
    ELSE request

\* A domain error reported as an internal error.
ServiceErrorInternal(id, err) == ResponseError(id, -32603, err)

\* `Err(err) => Response::error(request.id, -32000, err)`
ServiceError(id, err) == ResponseError(id, -32000, err)

\* The arms of handle that call no service operation: an unknown method and
\* params that do not parse.
HandleRefused(request) ==
    LET leaf == Unwrap(request)
    IN /\ ~(leaf.method \in KnownMethods /\ ParamsParse(leaf.method, leaf.params_json))
       /\ call_in' = Some(request)
       /\ call_out' = Some(IF leaf.method \in KnownMethods
                           THEN ResponseError(leaf.id, -32602, "invalid params")
                           ELSE ResponseError(leaf.id, -32601, "method not found"))
       /\ UNCHANGED <<orchVars, svcVars, fsVars, mcpVars>>

\* "tools.list"
HandleToolsList(request) ==
    LET leaf == Unwrap(request)
    IN /\ leaf.method = "tools.list"
       /\ call_in' = Some(request)
       /\ call_out' = Some(ResponseSuccess(leaf.id, RegistryNames))
       /\ UNCHANGED <<orchVars, svcVars, fsVars, mcpVars>>

\* "chat.request"
HandleChatRequest(request) ==
    LET leaf == Unwrap(request)
    IN /\ leaf.method = "chat.request"
       /\ ParamsParse(leaf.method, leaf.params_json)
       /\ \E behaviour \in IdsBehaviours :
             ChatRequest(None, "", leaf.params_json.mode, behaviour)
       /\ call_in' = Some(request)
       /\ call_out' = Some(ResponseSuccess(leaf.id, last'[1].response[1]))

\* "chat.approve" and "chat.deny"
HandleResolution(request) ==
    LET leaf == Unwrap(request)
    IN /\ leaf.method \in {"chat.approve", "chat.deny"}
       /\ ParamsParse(leaf.method, leaf.params_json)
       /\ IF leaf.method = "chat.approve"
          THEN ChatApprove(leaf.params_json.consent_token, <<FinalText("done")>>)
          ELSE ChatDeny(leaf.params_json.consent_token)
       /\ call_in' = Some(request)
       /\ call_out' = Some(IF last'[1].ok
                           THEN ResponseSuccess(leaf.id, last'[1].response[1])
                           ELSE ServiceError(leaf.id, last'[1].error))

\* "sessions.create"
HandleSessionsCreate(request) ==
    LET leaf == Unwrap(request)
    IN /\ leaf.method = "sessions.create"
       /\ ParamsParse(leaf.method, leaf.params_json)
       /\ SessionsCreate
       /\ call_in' = Some(request)
       /\ call_out' = Some(ResponseSuccess(leaf.id, sessions'[Len(sessions')]))

\* Time passes between two requests.
HandleTick(d) ==
    /\ Tick(d)
    /\ call_in' = None
    /\ call_out' = None


\* Requests that are not rpc.raw with a RawRpcRequest: each method with
\* params that parse for it and with params that do not.
LeafCalls ==
    {<<"tools.list", InvalidParams>>, <<"no.such.method", EmptyParams>>,
     <<"chat.request", ChatParams("RequireConfirmation")>>,
     <<"chat.request", EmptyParams>>,
     <<"chat.approve", EmptyParams>>, <<"chat.deny", InvalidParams>>,
     <<"sessions.create", EmptyParams>>, <<"sessions.create", InvalidParams>>,
     <<"rpc.raw", EmptyParams>>}
        \cup {<<method, ApproveParams(token)>> :
                 method \in {"chat.approve", "chat.deny"}, token \in ConsentTokens}

\* Each of them under the id 7, and nested in an rpc.raw without id, with
\* and without an id of its own.
DispatchRequests ==
    {Request(IdNumber(7), call[1], call[2]) : call \in LeafCalls}
        \cup {Request(IdNull, "rpc.raw", RawParams(inner, call[1], call[2])) :
                 inner \in {None, Some(9)}, call \in LeafCalls}

DispatchInit == SvcInit

DispatchNext ==
    /\ \/ \E request \in DispatchRequests : HandleRefused(request)
       \/ \E request \in DispatchRequests : HandleToolsList(request)
       \/ \E request \in DispatchRequests : HandleChatRequest(request)
       \/ \E request \in DispatchRequests : HandleResolution(request)
       \/ \E request \in DispatchRequests : HandleSessionsCreate(request)
       \/ \E d \in ClockSteps : HandleTick(d)
    /\ IdsTrack

SpecDispatch == DispatchInit /\ [][DispatchNext]_vars

(***************************************************************************)
(* Dispatch errors (checked under SpecDispatch)                            *)
(***************************************************************************)
\* The step just taken answered a request.
Answered == call_out' # None

\* The service, on disk and in the process, is as it was.
ServiceUntouched == UNCHANGED <<storeVars, counterVars, clockVars, last, mcpVars, fsVars>>

\* What the service operation of a chat.approve or chat.deny returns first:
\* the outcome of looking up and marking the consent.
ResolutionOutcome(leaf) ==
    mark_or_find_pending_consent(
        pending_consents, leaf.params_json.consent_token,
        IF leaf.method = "chat.approve" THEN "approved" ELSE "denied", now)

\* The code of the error of a response, or 0 for a result.
ErrorCode(response) == IF response.error = None THEN 0 ELSE response.error[1].code

\* The codes, the one-of-result-or-error rule and the frame of a refused
\* request, for the request answered in this step; id is the id the response
\* is to carry.
AnsweredAsSpecified(id) ==
    LET leaf == Unwrap(call_in'[1])
        response == call_out'[1]
        known == leaf.method \in KnownMethods
        parsed == known /\ ParamsParse(leaf.method, leaf.params_json)
        resolution == parsed /\ leaf.method \in {"chat.approve", "chat.deny"}
    IN /\ response.id = id
       /\ (response.result_json = None) # (response.error = None)
       /\ ~known => ErrorCode(response) = -32601 /\ ServiceUntouched
       /\ (known /\ ~parsed) => ErrorCode(response) = -32602 /\ ServiceUntouched
       /\ (resolution /\ ~ResolutionOutcome(leaf).ok) =>
             /\ ErrorCode(response) = -32000
             /\ response.error[1].message = ResolutionOutcome(leaf).error
       /\ (parsed /\ ~(resolution /\ ~ResolutionOutcome(leaf).ok)) =>
             ErrorCode(response) = 0

\* C21: for every request, an unknown method yields -32601, params that do
\* not parse for the method yield -32602, a service operation that returns
\* an error yields -32000 with the service's error string; every response
\* carries the request's id and exactly one of result and error; an
\* unknown-method or invalid-params request changes no service state.
DispatchErrors ==
    [][Answered => AnsweredAsSpecified(call_in'[1].id)]_vars

\* What holds of C21: the same, with the id of the innermost nested request
\* in the response to an rpc.raw that carries a RawRpcRequest.
DispatchErrorsOfLeaf ==
    [][Answered => AnsweredAsSpecified(Unwrap(call_in'[1]).id)]_vars

\* A chat.deny of a consent that was denied before has been refused with
\* -32000 and consent_not_pending:denied, under the id of its request.
DispatchErrorsWitness ==
    /\ call_out # None
    /\ call_in[1].method = "chat.deny"
    /\ call_in[1].id = IdNumber(7)
    /\ call_out[1].id = IdNumber(7)
    /\ ErrorCode(call_out[1]) = -32000
    /\ call_out[1].error[1].message = "consent_not_pending:denied"

(***************************************************************************)
(* Store writes that fail.  Every handler that writes a store file is      *)
(* taken with the outcome of its writes as an input: `writes` says, for    *)
(* each file the handler may write, whether FileStorage::write_json        *)
(* returns Ok for it during the call.  Reads succeed.  call_in is the      *)
(* operation and its writes, call_out what the handler returned and the    *)
(* files whose write was attempted and failed.                             *)
(***************************************************************************)
\* A write that puts the new content in place before it reports its error.
write_json_in_place(old, new, write_ok) == new

\* FileStorage::write_json: the file in place after the call.  The content
\* goes to the temporary file and is renamed over the file as the last
\* step, so that a call that returns an error has left the file as it was.
write_json(old, new, write_ok) == IF write_ok THEN new ELSE old

\* io_err(err): the text of the io::Error of a failed write
IoErrorText == "write failed"

WriteOutcomes(files) == [files -> BOOLEAN]

\* The files among `attempted` whose write failed.
FailedWrites(attempted, writes) == {f \in attempted : ~writes[f]}

WritingCall(op, writes) == [op |-> op, writes |-> writes]

CallResult(ok, error, response, failed) ==
    [ok |-> ok, error |-> error, response |-> response, failed |-> failed]

\* The return of a handler whose only write is propagated with `?`.
ResultOfWrite(file, writes) ==
    IF writes[file] THEN CallResult(TRUE, "", None, {})
    ELSE CallResult(FALSE, IoErrorText, None, {file})

\* sessions_create
SessionsCreateWriting(writes) ==
    /\ session_counter < MaxSessions
    /\ session_counter' = session_counter + 1
    /\ sessions' = write_json(sessions,
                              Append(sessions,
                                     [id |-> next_session_id(session_counter),
                                      messages |-> <<>>]),
                              writes["sessions"])
    /\ call_in' = Some(WritingCall("sessions.create", writes))
    /\ call_out' = Some(ResultOfWrite("sessions", writes))
    /\ last' = None
    /\ UNCHANGED <<pending_consents, audit, provider_state, consent_counter,
                   synthetic_audit_counter, clockVars, orchVars, fsVars, mcpVars>>

\* sessions_delete
SessionsDeleteWriting(session_id, writes) ==
    /\ sessions' = write_json(sessions,
                              SelectSeq(sessions, LAMBDA s : s.id # session_id),
                              writes["sessions"])
    /\ call_in' = Some(WritingCall("sessions.delete", writes))
    /\ call_out' = Some(ResultOfWrite("sessions", writes))
    /\ last' = None
    /\ UNCHANGED <<pending_consents, audit, provider_state, counterVars,
                   clockVars, orchVars, fsVars, mcpVars>>

\* sessions_messages_append
SessionsMessagesAppendWriting(session_id, writes) ==
    LET idx == SessionPosition(sessions, session_id)
    IN /\ call_in' = Some(WritingCall("sessions.messages.append", writes))
       /\ IF idx = 0
          THEN /\ call_out' = Some(CallResult(FALSE, "session not found", None, {}))
               /\ UNCHANGED sessions
          ELSE /\ Len(SelectSeq(sessions[idx].messages, IsAppendedMessage)) < MaxAppends
               /\ sessions' = write_json(
                      sessions,
                      [sessions EXCEPT ![idx].messages = @ \o AppendedMessages],
                      writes["sessions"])
               /\ call_out' = Some(ResultOfWrite("sessions", writes))
       /\ last' = None
       /\ UNCHANGED <<pending_consents, audit, provider_state, counterVars,
                      clockVars, orchVars, fsVars, mcpVars>>

\* providers_set
ProvidersSetWriting(provider_name, writes) ==
    /\ provider_state' = write_json(
           provider_state,
           [provider_state EXCEPT !.active_provider = Some(provider_name)],
           writes["provider_state"])
    /\ call_in' = Some(WritingCall("providers.set", writes))
    /\ call_out' = Some(ResultOfWrite("provider_state", writes))
    /\ last' = None
    /\ UNCHANGED <<pending_consents, sessions, audit, counterVars, clockVars,
                   orchVars, fsVars, mcpVars>>

\* providers_config_set
ProvidersConfigSetWriting(provider_name, config_json, writes) ==
    /\ provider_state' = write_json(
           provider_state,
           [active_provider |->
               IF provider_state.active_provider = None THEN Some(provider_name)
               ELSE provider_state.active_provider,
            configs |->
               [n \in DOMAIN provider_state.configs \cup {provider_name} |->
                   IF n = provider_name THEN config_json
                   ELSE provider_state.configs[n]]],
           writes["provider_state"])
    /\ call_in' = Some(WritingCall("providers.config.set", writes))
    /\ call_out' = Some(ResultOfWrite("provider_state", writes))
    /\ last' = None
    /\ UNCHANGED <<pending_consents, sessions, audit, counterVars, clockVars,
                   orchVars, fsVars, mcpVars>>

\* mcp_servers_add
McpServersAddWriting(writes) ==
    /\ mcp_counter < MaxServers
    /\ mcp_counter' = mcp_counter + 1
    /\ mcp_servers' = write_json(
           mcp_servers,
           Append(mcp_servers, McpServerRecord(next_mcp_id(mcp_counter), "stopped")),
           writes["mcp_servers"])
    /\ call_in' = Some(WritingCall("mcp.servers.add", writes))
    /\ call_out' = Some(ResultOfWrite("mcp_servers", writes))
    /\ mcp_last' = None
    /\ UNCHANGED <<mcp_processes, os_alive, next_pid, restarts, mcp_normalized,
                   mcp_exited, orchVars, svcVars, fsVars>>

\* mcp_servers_remove
McpServersRemoveWriting(server_id, writes) ==
    /\ StopServerProcess(server_id)
    /\ mcp_servers' = write_json(
           mcp_servers,
           SelectSeq(mcp_servers, LAMBDA s : s.id # server_id),
           writes["mcp_servers"])
    /\ mcp_exited' = mcp_exited \ {server_id}
    /\ call_in' = Some(WritingCall("mcp.servers.remove", writes))
    /\ call_out' = Some(ResultOfWrite("mcp_servers", writes))
    /\ mcp_last' = None
    /\ UNCHANGED <<mcp_counter, next_pid, restarts, mcp_normalized,
                   orchVars, svcVars, fsVars>>

\* mcp_servers_start, with a command that spawns
McpServersStartWriting(server_id, writes) ==
    /\ call_in' = Some(WritingCall("mcp.servers.start", writes))
    /\ mcp_last' = None
    /\ IF ServerPosition(mcp_servers, server_id) = 0
       THEN /\ call_out' = Some(CallResult(FALSE, "mcp server not found", None, {}))
            /\ UNCHANGED <<mcp_servers, mcp_processes, os_alive, next_pid, mcp_exited>>
       ELSE /\ IF /\ server_id \in DOMAIN mcp_processes
                  /\ try_wait(mcp_processes[server_id]) = None
               THEN UNCHANGED <<mcp_processes, os_alive, next_pid, mcp_exited>>
               ELSE /\ next_pid <= MaxSpawns
                    /\ mcp_processes' =
                          [id \in DOMAIN mcp_processes \cup {server_id} |->
                              IF id = server_id THEN next_pid ELSE mcp_processes[id]]
                    /\ os_alive' = os_alive \cup {next_pid}
                    /\ next_pid' = next_pid + 1
                    /\ mcp_exited' = mcp_exited \ {server_id}
            /\ mcp_servers' = write_json(
                   mcp_servers,
                   set_mcp_server_status(mcp_servers, server_id, "running"),
                   writes["mcp_servers"])
            /\ call_out' = Some(ResultOfWrite("mcp_servers", writes))
    /\ UNCHANGED <<mcp_counter, restarts, mcp_normalized, orchVars, svcVars, fsVars>>

\* mcp_servers_stop
McpServersStopWriting(server_id, writes) ==
    /\ StopServerProcess(server_id)
    /\ mcp_servers' = write_json(
           mcp_servers,
           set_mcp_server_status(mcp_servers, server_id, "stopped"),
           writes["mcp_servers"])
    /\ mcp_exited' = mcp_exited \ {server_id}
    /\ call_in' = Some(WritingCall("mcp.servers.stop", writes))
    /\ call_out' = Some(ResultOfWrite("mcp_servers", writes))
    /\ mcp_last' = None
    /\ UNCHANGED <<mcp_counter, next_pid, restarts, mcp_normalized,
                   orchVars, svcVars, fsVars>>

\* Whether the request names a session that is on disk.
SessionOnDisk(items, session_id) ==
    session_id # None /\ SessionPosition(items, session_id[1]) # 0

\* chat_request: the writes whose error it drops (`let _ =`) are those of
\* the session file, of the consent file and of the audit log; a consent
\* write that fails leaves the response without consent_token.
ChatRequestWriting(session_id, mode, behaviour, writes) ==
    LET given == ChatRequestOf(session_id, RequestMessages, "", mode)
        params == EffectiveRequest(given, provider_state)
        sessions1 == write_json(
            sessions, append_messages_to_session_if_requested(sessions, params),
            writes["sessions"])
    IN /\ synthetic_audit_counter < MaxAudits
       /\ \E acc \in {run(behaviour, params.mode)} :
          \E ran \in {[ChatResponse(acc) EXCEPT
                  !.audit_id = next_synthetic_audit_id(synthetic_audit_counter),
                  !.session_id = params.session_id]} :
          \E attached \in {attach_or_create_consent(
                  pending_consents, consent_counter, params, ran, now)} :
          \E tokened \in {IF writes["pending_consents"] THEN attached.response
                          ELSE ran} :
          \E response \in {[tokened EXCEPT
                  !.execution_state =
                      IF tokened.consent_token # None
                      THEN "awaiting_consent" ELSE "completed"]} :
            /\ attached.counter <= MaxConsents
            /\ pending_consents' = write_json(pending_consents, attached.items,
                                              writes["pending_consents"])
            /\ consent_counter' = attached.counter
            /\ synthetic_audit_counter' = synthetic_audit_counter + 1
            /\ sessions' = write_json(
                   sessions1,
                   append_assistant_message_to_session_if_requested(
                       sessions1, response.session_id, response.final_text),
                   writes["sessions"])
            /\ audit' = write_json(
                   audit,
                   persist_audit_from_response(
                       audit, response, params.provider_config.provider_name),
                   writes["audit"])
            /\ call_out' = Some(CallResult(TRUE, "", Some(response),
                   FailedWrites(
                       {"audit"}
                         \cup (IF attached.counter # consent_counter
                               THEN {"pending_consents"} ELSE {})
                         \cup (IF SessionOnDisk(sessions, params.session_id)
                               THEN {"sessions"} ELSE {}),
                       writes)))
       /\ call_in' = Some(WritingCall("chat.request", writes))
       /\ last' = None
       /\ UNCHANGED <<provider_state, session_counter, clockVars, orchVars,
                      fsVars, mcpVars>>

\* A mark that goes on as if the status were written when its write failed.
mark_or_find_pending_consent_unwritten(items, consent_id, new_status, t, write_ok) ==
    LET found == mark_or_find_pending_consent(items, consent_id, new_status, t)
    IN [ok |-> found.ok, error |-> found.error,
        items |-> IF write_ok THEN found.items ELSE items,
        out |-> found.out,
        attempted |-> found.items # items]

\* mark_or_find_pending_consent with the outcome of its write: the write of
\* the expired status is dropped when it fails, that of the new status is
\* propagated.
mark_or_find_pending_consent_writing(items, consent_id, new_status, t, write_ok) ==
    LET found == mark_or_find_pending_consent(items, consent_id, new_status, t)
    IN IF found.ok /\ ~write_ok
       THEN [ok |-> FALSE, error |-> IoErrorText, items |-> items, out |-> None,
             attempted |-> TRUE]
       ELSE [ok |-> found.ok, error |-> found.error,
             items |-> write_json(items, found.items, write_ok),
             out |-> found.out,
             attempted |-> found.items # items]

\* chat_approve
ChatApproveWriting(consent_token, behaviour, writes) ==
    \E found \in {mark_or_find_pending_consent_writing(
                      pending_consents, consent_token, "approved", now,
                      writes["pending_consents"])} :
       /\ pending_consents' = found.items
       /\ call_in' = Some(WritingCall("chat.approve", writes))
       /\ last' = None
       /\ IF ~found.ok
          THEN /\ call_out' = Some(CallResult(FALSE, found.error, None,
                      FailedWrites(IF found.attempted THEN {"pending_consents"}
                                   ELSE {}, writes)))
               /\ UNCHANGED <<sessions, audit, synthetic_audit_counter>>
          ELSE LET pending == found.out[1]
                   req == pending.chat_request
                   args == ReplayArguments(req)
               IN /\ synthetic_audit_counter < MaxAudits
                  /\ \E acc \in {run_with_confirmation(behaviour, args.mode,
                                                        args.user_confirmed)} :
                     \E response \in {[ChatResponse(acc) EXCEPT
                            !.audit_id =
                                next_synthetic_audit_id(synthetic_audit_counter),
                            !.session_id = pending.record.session_id,
                            !.execution_state = "completed",
                            !.consent_token = None,
                            !.consent_request = None]} :
                        /\ synthetic_audit_counter' = synthetic_audit_counter + 1
                        /\ sessions' = write_json(
                               sessions,
                               append_assistant_message_to_session_if_requested(
                                   sessions, response.session_id, response.final_text),
                               writes["sessions"])
                        /\ audit' = write_json(
                               audit,
                               persist_audit_from_response(
                                   audit, response, req.provider_config.provider_name),
                               writes["audit"])
                        /\ call_out' = Some(CallResult(TRUE, "", Some(response),
                               FailedWrites(
                                   {"audit"} \cup
                                     (IF SessionOnDisk(sessions, response.session_id)
                                      THEN {"sessions"} ELSE {}),
                                   writes)))
       /\ UNCHANGED <<provider_state, consent_counter, session_counter,
                      clockVars, orchVars, fsVars, mcpVars>>

\* chat_deny
ChatDenyWriting(consent_token, writes) ==
    \E found \in {mark_or_find_pending_consent_writing(
                      pending_consents, consent_token, "denied", now,
                      writes["pending_consents"])} :
       /\ pending_consents' = found.items
       /\ call_in' = Some(WritingCall("chat.deny", writes))
       /\ last' = None
       /\ IF ~found.ok
          THEN /\ call_out' = Some(CallResult(FALSE, found.error, None,
                      FailedWrites(IF found.attempted THEN {"pending_consents"}
                                   ELSE {}, writes)))
               /\ UNCHANGED <<sessions, audit, synthetic_audit_counter>>
          ELSE /\ synthetic_audit_counter < MaxAudits
               /\ \E response \in {response_for_denial(
                        found.out[1],
                        next_synthetic_audit_id(synthetic_audit_counter))} :
                  /\ synthetic_audit_counter' = synthetic_audit_counter + 1
                  /\ audit' = write_json(
                         audit,
                         persist_audit_from_response(
                             audit, response,
                             found.out[1].chat_request.provider_config.provider_name),
                         writes["audit"])
                  /\ sessions' = write_json(
                         sessions,
                         append_assistant_message_to_session_if_requested(
                             sessions, response.session_id, response.final_text),
                         writes["sessions"])
                  /\ call_out' = Some(CallResult(TRUE, "", Some(response),
                         FailedWrites(
                             {"audit"} \cup
                               (IF SessionOnDisk(sessions, response.session_id)
                                THEN {"sessions"} ELSE {}),
                             writes)))
       /\ UNCHANGED <<provider_state, consent_counter, session_counter,
                      clockVars, orchVars, fsVars, mcpVars>>

\* The provider asks for a ReadOnly tool, which the mode BestEffort lets run,
\* or for a SystemActions tool, which needs consent.
WritingBehaviours ==
    { <<ToolCalls(<<ToolCall("echo")>>), FinalText("done")>>,
      <<ToolCalls(<<ToolCall("desktop.app.activate")>>), FinalText("done")>> }

ChatFiles == {"pending_consents", "sessions", "audit"}
\* Every chat names the first session, which is on disk or not.
WritingSessions == {Some(FormatId("sess", 1))}

WritingInit == SvcInit

\* The handlers of the MCP servers are taken on a service that has held no
\* chat and no session, those of the chats and sessions on a service without
\* MCP servers: the two groups write different files.
NoChatYet == session_counter = 0 /\ synthetic_audit_counter = 0
NoServerYet == mcp_counter = 0

WritingNext ==
    /\ \/ \E writes \in WriteOutcomes({"sessions"}) :
             NoServerYet /\ SessionsCreateWriting(writes)
       \/ \E writes \in WriteOutcomes({"sessions"}) :
             NoServerYet /\ SessionsDeleteWriting(FormatId("sess", 1), writes)
       \/ \E writes \in WriteOutcomes({"sessions"}) :
             NoServerYet /\ SessionsMessagesAppendWriting(FormatId("sess", 1), writes)
       \/ \E writes \in WriteOutcomes({"provider_state"}) :
             NoServerYet /\ ProvidersSetWriting("openai", writes)
       \/ \E writes \in WriteOutcomes({"provider_state"}) :
             /\ NoServerYet
             /\ ProvidersConfigSetWriting("openai", JsonArguments(JObject(<<>>)), writes)
       \/ \E writes \in WriteOutcomes({"mcp_servers"}) :
             NoChatYet /\ McpServersAddWriting(writes)
       \/ \E server_id \in ServerIds, writes \in WriteOutcomes({"mcp_servers"}) :
             NoChatYet /\ McpServersRemoveWriting(server_id, writes)
       \/ \E server_id \in ServerIds, writes \in WriteOutcomes({"mcp_servers"}) :
             NoChatYet /\ McpServersStartWriting(server_id, writes)
       \/ \E server_id \in ServerIds, writes \in WriteOutcomes({"mcp_servers"}) :
             NoChatYet /\ McpServersStopWriting(server_id, writes)
       \/ \E session_id \in WritingSessions, behaviour \in WritingBehaviours,
             writes \in WriteOutcomes(ChatFiles) :
             /\ NoServerYet
             /\ ChatRequestWriting(session_id, "BestEffort", behaviour, writes)
       \/ \E consent_token \in ConsentTokens, writes \in WriteOutcomes(ChatFiles) :
             NoServerYet /\ ChatApproveWriting(consent_token, <<FinalText("done")>>, writes)
       \/ \E consent_token \in ConsentTokens, writes \in WriteOutcomes(ChatFiles) :
             NoServerYet /\ ChatDenyWriting(consent_token, writes)
    /\ IdsTrack

SpecWriting == WritingInit /\ [][WritingNext]_vars

(***************************************************************************)
(* Failed store writes (checked under SpecWriting)                         *)
(***************************************************************************)
\* The step is a call in which the write of some store file was attempted
\* and failed.
WriteFailedStep == call_out' # None /\ call_out'[1].failed # {}

\* The store file keeps its content in the step.
SnapshotKept(file) ==
    CASE file = "sessions" -> UNCHANGED sessions
      [] file = "pending_consents" -> UNCHANGED pending_consents
      [] file = "audit" -> UNCHANGED audit
      [] file = "provider_state" -> UNCHANGED provider_state
      [] file = "mcp_servers" -> UNCHANGED mcp_servers

\* Nothing of the service changes in the step: no store file, no counter, no
\* child process.
NothingCommitted ==
    UNCHANGED <<storeVars, counterVars, mcp_servers, mcp_counter, mcp_processes,
                os_alive>>

SingleWriteOps ==
    {"sessions.create", "sessions.delete", "sessions.messages.append",
     "providers.set", "providers.config.set", "mcp.servers.add",
     "mcp.servers.remove", "mcp.servers.start", "mcp.servers.stop"}
\* The operations that do nothing but one write.
WriteOnlyOps ==
    {"sessions.delete", "sessions.messages.append", "providers.set",
     "providers.config.set"}
ResolvingOps == {"chat.approve", "chat.deny"}

\* C22 (as stated): for every mutating operation, if a store write it
\* performs fails, the persisted files equal their prior snapshot, no other
\* effect of the operation is committed, and the caller gets an error.
FailedWriteCommitsNothing ==
    [][WriteFailedStep => NothingCommitted /\ ~call_out'[1].ok]_vars

\* C22 (what holds): a store file whose write fails keeps its prior
\* snapshot; every operation other than the chat calls returns the error of
\* its failed write, and so do chat.approve and chat.deny when the write of
\* the consent file fails; sessions.delete, sessions.messages.append,
\* providers.set, providers.config.set, and chat.approve and chat.deny on a
\* failed consent write, commit nothing.
FailedWriteKeepsSnapshot ==
    [][WriteFailedStep =>
          LET op == call_in'[1].op
              out == call_out'[1]
          IN /\ \A file \in out.failed : SnapshotKept(file)
             /\ op \in SingleWriteOps => ~out.ok /\ out.error = IoErrorText
             /\ op \in WriteOnlyOps => NothingCommitted
             /\ op \in ResolvingOps /\ "pending_consents" \in out.failed =>
                   ~out.ok /\ NothingCommitted]_vars

\* mcp.servers.start returned the error of its failed write, and the child
\* it spawned runs while the record on disk still says stopped.
FailedWriteWitness ==
    /\ call_in # None
    /\ call_in[1].op = "mcp.servers.start"
    /\ call_out[1].failed = {"mcp_servers"}
    /\ ~call_out[1].ok
    /\ FormatId("mcp", 1) \in DOMAIN mcp_processes
    /\ mcp_processes[FormatId("mcp", 1)] \in os_alive
    /\ mcp_servers[1].status = "stopped"

\* chat.request executed a tool and answered as completed although the
\* write of its audit entry failed.
FailedWriteUnreportedWitness ==
    /\ call_in # None
    /\ call_in[1].op = "chat.request"
    /\ "audit" \in call_out[1].failed
    /\ call_out[1].ok
    /\ call_out[1].response[1].executed_action_events # <<>>
    /\ audit = <<>>

(***************************************************************************)
(* The loop of run_with_confirmation, one step per provider invocation and *)
(* one per match on its reply.  orch_in holds the arguments of the run,    *)
(* call_out the locals of the loop: the accumulators, the reply being      *)
(* matched, the tool_results handed to the provider at each invocation and *)
(* the way the loop was left.  orch_out is the return of the run.          *)
(***************************************************************************)
LoopState(pc, acc, provider_reply, handed, ending) ==
    [pc |-> pc, acc |-> acc, provider_reply |-> provider_reply,
     handed |-> handed, ending |-> ending]

LoopInit ==
    /\ orch_in \in [behaviour : Behaviours, mode : Modes, user_confirmed : BOOLEAN]
    /\ orch_out = None
    /\ call_in = None
    /\ call_out = Some(LoopState("chat", RunStart, None, <<>>, "running"))
    /\ SvcIdle
    /\ FsIdle
    /\ McpIdle
    /\ IdsIdle

\* The return of run_with_confirmation once the loop has broken.
LoopReturn(acc) == Some([response |-> ChatResponse(acc), run |-> acc])

\* `self.provider.chat(&messages, &tools, &tool_results, &provider_config)`,
\* before the loop and at the end of a round
ProviderInvoke ==
    LET loop == call_out[1]
    IN /\ loop.pc = "chat"
       /\ call_out' = Some(LoopState(
              "match",
              [loop.acc EXCEPT !.provider_chats = @ + 1],
              Some(ProviderChat(orch_in.behaviour, loop.acc.provider_chats + 1)),
              Append(loop.handed, loop.acc.tool_results),
              "running"))
       /\ UNCHANGED orch_out

\* `ProviderReply::FinalText(text) => break text`
BreakFinalText ==
    LET loop == call_out[1]
    IN /\ loop.pc = "match"
       /\ loop.provider_reply[1].kind = "FinalText"
       /\ \E acc \in {[loop.acc EXCEPT !.final_text = loop.provider_reply[1].text]} :
             /\ call_out' = Some(LoopState("done", acc, None, loop.handed,
                                           "final_text"))
             /\ orch_out' = LoopReturn(acc)

\* `tool_rounds += 1; if tool_rounds > Self::MAX_TOOL_ROUNDS { break ... }`
BreakRoundLimit ==
    LET loop == call_out[1]
    IN /\ loop.pc = "match"
       /\ loop.provider_reply[1].kind = "ToolCalls"
       /\ RoundLimitExceeded(loop.acc.tool_rounds + 1)
       /\ \E acc \in {[loop.acc EXCEPT !.tool_rounds = @ + 1,
                                       !.final_text = TooManyRoundsText]} :
             /\ call_out' = Some(LoopState("done", acc, None, loop.handed,
                                           "round_limit"))
             /\ orch_out' = LoopReturn(acc)

\* One round: the calls of the reply are processed in order; the loop breaks
\* when a confirmation is pending and the round produced no tool result,
\* and goes on to the next provider invocation otherwise.
ToolRound ==
    LET loop == call_out[1]
    IN /\ loop.pc = "match"
       /\ loop.provider_reply[1].kind = "ToolCalls"
       /\ ~RoundLimitExceeded(loop.acc.tool_rounds + 1)
       /\ \E acc \in {ProcessCalls(
                         [loop.acc EXCEPT !.tool_rounds = @ + 1,
                                          !.pending_confirmation = FALSE],
                         loop.provider_reply[1].calls, orch_in.mode,
                         orch_in.user_confirmed)} :
             IF UnproductiveConsentRound(acc, Len(loop.acc.tool_results))
             THEN \E ended \in {[acc EXCEPT !.final_text = ConfirmationRequiredText]} :
                     /\ call_out' = Some(LoopState("done", ended, None, loop.handed,
                                                   "consent_gated"))
                     /\ orch_out' = LoopReturn(ended)
             ELSE /\ call_out' = Some(LoopState("chat", acc, None, loop.handed,
                                                "running"))
                  /\ UNCHANGED orch_out

LoopNext ==
    /\ \/ ProviderInvoke
       \/ BreakFinalText
       \/ BreakRoundLimit
       \/ ToolRound
    /\ UNCHANGED <<orch_in, call_in, svcVars, fsVars, mcpVars, idVars>>

SpecLoop == LoopInit /\ [][LoopNext]_vars

\* The run is one thread of control and every provider invocation and tool
\* execution returns: a step that can be taken is taken.
SpecLoopFair == SpecLoop /\ WF_vars(LoopNext)

(***************************************************************************)
(* Claims about the loop (checked under SpecLoop and SpecLoopFair)         *)
(***************************************************************************)
Loop == call_out[1]
LoopDone == Loop.pc = "done"
\* The reply of the last provider invocation.
LastReply == ProviderChat(orch_in.behaviour, Loop.acc.provider_chats)
\* The events the last processed round proposed.
EventsFrom(events, first) == SubSeq(events, first, Len(events))
Last(s) == s[Len(s)]

\* The three ways the loop is left, told from the state it is left in.
EndedByFinalText ==
    /\ LastReply.kind = "FinalText"
    /\ Loop.acc.final_text = LastReply.text
EndedByRoundLimit ==
    /\ LastReply.kind = "ToolCalls"
    /\ Loop.acc.tool_rounds = MAX_TOOL_ROUNDS + 1
    /\ Loop.acc.provider_chats = MAX_TOOL_ROUNDS + 1
    /\ Loop.acc.final_text = TooManyRoundsText
EndedByConsent ==
    /\ LastReply.kind = "ToolCalls"
    /\ Loop.acc.tool_rounds <= MAX_TOOL_ROUNDS
    /\ Loop.acc.pending_confirmation
    /\ Loop.acc.tool_results = Last(Loop.handed)
    /\ Loop.acc.final_text = ConfirmationRequiredText

\* A run that has returned was left in exactly one of the three ways, and
\* returned what run_with_confirmation computes; a run that has not returned
\* has no response.
EndsOneWay ==
    IF LoopDone
    THEN /\ Loop.ending = "final_text" <=> EndedByFinalText
         /\ Loop.ending = "round_limit" <=> EndedByRoundLimit
         /\ Loop.ending = "consent_gated" <=> EndedByConsent
         /\ Loop.ending \in {"final_text", "round_limit", "consent_gated"}
         /\ orch_out # None
         /\ OrchRunOut = run_with_confirmation(orch_in.behaviour, orch_in.mode,
                                               orch_in.user_confirmed)
    ELSE orch_out = None /\ Loop.ending = "running"

\* C23: run_with_confirmation eventually returns, and when it does the loop
\* was left in exactly one of three ways: the provider returned a final
\* text, a round proposed a consent-gated call and produced no tool result,
\* or the provider asked for tools a fifth time.
Termination == <>LoopDone /\ []EndsOneWay

\* A run that executed a tool in its first round and was left in the second
\* because a confirmation was pending and nothing was executed.
TerminationWitness ==
    /\ LoopDone
    /\ Loop.ending = "consent_gated"
    /\ Loop.acc.tool_rounds = 2
    /\ Loop.acc.tool_results # <<>>

\* The step processes the calls of one round.
RoundStep ==
    /\ Loop.pc = "match"
    /\ Loop.provider_reply[1].kind = "ToolCalls"
    /\ Loop.acc.tool_rounds < MAX_TOOL_ROUNDS

\* What the round of the step proposed and executed.
RoundProposed ==
    EventsFrom(call_out'[1].acc.proposed_actions, Len(Loop.acc.proposed_actions) + 1)
RoundResults ==
    EventsFrom(call_out'[1].acc.tool_results, Len(Loop.acc.tool_results) + 1)
RoundAsksConsent ==
    \E i \in DOMAIN RoundProposed : RoundProposed[i].status = "consent_required"

\* A round that asks for consent and executes nothing ends the run with the
\* confirmation text; any round that executed a call goes on to a provider
\* invocation, as does a round that neither executed nor asks for consent.
RoundOutcome ==
    RoundStep =>
        IF RoundAsksConsent /\ RoundResults = <<>>
        THEN /\ call_out'[1].pc = "done"
             /\ orch_out'[1].response.final_text = ConfirmationRequiredText
             /\ call_out'[1].acc.provider_chats = Loop.acc.provider_chats
             /\ call_out'[1].handed = Loop.handed
        ELSE /\ call_out'[1].pc = "chat"
             /\ orch_out' = None

\* A provider invocation hands over every tool result accumulated so far.
InvocationStep ==
    Loop.pc = "chat" =>
        /\ call_out'[1].pc = "match"
        /\ call_out'[1].acc.provider_chats = Loop.acc.provider_chats + 1
        /\ call_out'[1].handed = Append(Loop.handed, Loop.acc.tool_results)
        /\ call_out'[1].acc.tool_results = Loop.acc.tool_results

\* C24: in each round, if some call is consent_required and none executed,
\* the run ends with "Confirmation required before executing requested
\* tools." and the provider is not invoked again; if at least one call
\* executed, even next to consent_required calls, the provider is invoked
\* again with the accumulated tool results.  No step follows the return.
ConsentRound == [][~LoopDone /\ RoundOutcome /\ InvocationStep]_vars

\* The provider is being invoked after a round that executed a call and
\* left another one waiting for consent.
ConsentRoundWitness ==
    /\ Loop.pc = "match"
    /\ Loop.acc.pending_confirmation
    /\ Loop.acc.provider_chats = 2
    /\ Last(Loop.handed) # <<>>
    /\ \E i \in DOMAIN Loop.acc.proposed_actions :
          Loop.acc.proposed_actions[i].status = "consent_required"

\* The rounds whose calls were processed.
RoundsProcessed == Min(Loop.acc.tool_rounds, MAX_TOOL_ROUNDS)

RECURSIVE AllowedBefore(_, _)
\* How many of the first n decisions were allow.
AllowedBefore(decisions, n) ==
    IF n = 0 THEN 0
    ELSE AllowedBefore(decisions, n - 1)
            + (IF decisions[n].decision = "allow" THEN 1 ELSE 0)

IsApproved(evt) == evt.status = "approved"
\* An event without the fields that tell a proposal from an execution.
EventCall(evt) == <<evt.tool_name, evt.capability_tier, evt.arguments_preview>>

\* C25: the calls are processed in provider order; the tool_results handed
\* to the provider at each invocation are all the results produced so far,
\* in execution order; action_events is proposed_actions followed by
\* executed_action_events; and the executed events are the approved events
\* of proposed_actions, in the same order.
Ordering ==
    LET acc == Loop.acc
        calls == RoundCalls(orch_in.behaviour, RoundsProcessed)
    IN /\ Loop.pc \in {"chat", "done"} =>
            /\ acc.requested_tool_calls = calls
            /\ Len(acc.policy_decisions) = Len(calls)
            /\ Len(acc.proposed_actions) = Len(calls)
            /\ \A i \in DOMAIN calls :
                  /\ acc.policy_decisions[i].tool_name = calls[i]
                  /\ acc.proposed_actions[i].tool_name = calls[i]
            /\ Len(acc.tool_results) = Len(acc.executed_action_events)
            /\ \A i \in DOMAIN acc.tool_results :
                  acc.tool_results[i].name = acc.executed_action_events[i].tool_name
            /\ LET approved == SelectSeq(acc.proposed_actions, IsApproved)
               IN /\ Len(approved) = Len(acc.executed_action_events)
                  /\ \A i \in DOMAIN approved :
                        /\ EventCall(approved[i]) = EventCall(acc.executed_action_events[i])
                        /\ acc.executed_action_events[i].status = "executed"
       /\ \A k \in DOMAIN Loop.handed :
            /\ IsPrefix(Loop.handed[k], acc.tool_results)
            /\ Len(Loop.handed[k]) =
                  AllowedBefore(acc.policy_decisions,
                                Len(RoundCalls(orch_in.behaviour, k - 1)))
       /\ LoopDone =>
            OrchResponse.action_events =
                OrchResponse.proposed_actions \o OrchResponse.executed_action_events

\* A run that executed two different tools in one round, handed both
\* results to the provider and had a denied call between proposals.
OrderingWitness ==
    /\ LoopDone
    /\ Len(Loop.handed) >= 2
    /\ Len(Loop.handed[2]) = 2
    /\ Loop.handed[2][1].name # Loop.handed[2][2].name
    /\ Len(OrchResponse.executed_action_events) >= 3
    /\ Len(OrchResponse.proposed_actions) > Len(OrchResponse.executed_action_events)

(***************************************************************************)
(* The consent attached by chat.request (checked under SpecConsent)        *)
(***************************************************************************)
\* The step is a call of chat.request.
ChatRequestStep == last' # None /\ last'[1].op = "chat_request"

AsksConsent(response) ==
    \E i \in DOMAIN response.proposed_actions :
        response.proposed_actions[i].status = "consent_required"

\* The step pushed one record onto the consent file and left the others.
OneConsentAdded ==
    /\ Len(pending_consents') = Len(pending_consents) + 1
    /\ SubSeq(pending_consents', 1, Len(pending_consents)) = pending_consents

ConsentAttachStep ==
    ChatRequestStep =>
        LET response == last'[1].response[1]
            added == Last(pending_consents')
        IN IF AsksConsent(response)
           THEN /\ response.execution_state = "awaiting_consent"
                /\ response.consent_token # None
                /\ OneConsentAdded
                /\ added.record.consent_id = response.consent_token[1]
                /\ added.record.status = "pending"
                /\ added.record.requested_at_unix_seconds = now
                /\ added.record.expires_at_unix_seconds =
                       added.record.requested_at_unix_seconds + 300
                /\ added.chat_request =
                       EffectiveRequest(last'[1].request[1], provider_state)
                /\ response.consent_request # None
                /\ response.consent_request[1].expires_at_unix_seconds =
                       Some(added.record.expires_at_unix_seconds)
                /\ \A i \in DOMAIN pending_consents :
                       pending_consents[i].record.consent_id
                           # response.consent_token[1]
           ELSE /\ response.execution_state = "completed"
                /\ response.consent_token = None
                /\ response.consent_request = None
                /\ pending_consents' = pending_consents

\* C26: the response of chat.request is awaiting_consent with a consent
\* token exactly when one of its proposed actions is consent_required; then
\* exactly one new consent record is persisted under that token, pending,
\* expiring 300 seconds after it was requested and holding the request;
\* otherwise the response is completed, consent_token and consent_request
\* are null and no consent record is added.
ConsentAttach == [][ConsentAttachStep]_vars

\* A chat.request made at second 300 that proposed two calls and minted one
\* consent, which expires at second 600.
ConsentAttachWitness ==
    /\ last # None
    /\ last[1].op = "chat_request"
    /\ last[1].response[1].execution_state = "awaiting_consent"
    /\ Len(last[1].response[1].proposed_actions) = 2
    /\ Len(pending_consents) = 1
    /\ pending_consents[1].record.requested_at_unix_seconds = 300
    /\ pending_consents[1].record.expires_at_unix_seconds = 600
    /\ Some(pending_consents[1].record.consent_id) = last[1].response[1].consent_token

(***************************************************************************)
(* chat.deny (checked under SpecConsent)                                   *)
(***************************************************************************)
\* The step is a chat.deny that returned a response.
DenyStep == last' # None /\ last'[1].op = "chat_deny" /\ last'[1].ok

IsConsentDecision(decision) == decision[2] = "consent_required"

\* The audit entries of the responses that asked for consent, in the order
\* of the log.  A replay asks for none and a denial logs its tool as denied,
\* so that these are the entries of the responses that minted a consent.
MintingEntriesOf(entries) ==
    SelectSeq(entries, LAMBDA e :
        \E i \in DOMAIN e.policy_decisions : IsConsentDecision(e.policy_decisions[i]))

\* The first consent_required decision of an entry: its tool, status and
\* reason.
FirstGated(entry) == SelectSeq(entry.policy_decisions, IsConsentDecision)[1]

\* A chat.request that mints a consent pushes the consent record and the
\* audit entry of its response: the k-th consent record was minted by the
\* response of the k-th of these entries.
MintedByStep ==
    /\ Len(MintingEntriesOf(audit')) = Len(pending_consents')
    /\ last' # None /\ last'[1].op = "chat_request"
          /\ last'[1].response[1].consent_token # None =>
             /\ Last(MintingEntriesOf(audit')).audit_id = last'[1].response[1].audit_id
             /\ Last(pending_consents').record.consent_id =
                    last'[1].response[1].consent_token[1]
             /\ Len(pending_consents') = Len(pending_consents) + 1

DenyResponseStep ==
    DenyStep =>
        LET response == last'[1].response[1]
            idx == ConsentPosition(pending_consents, last'[1].token[1])
            first == FirstGated(MintingEntriesOf(audit)[idx])
        IN /\ response.execution_state = "denied"
           /\ response.executed_action_events = <<>>
           /\ Len(response.proposed_actions) = 1
           /\ response.proposed_actions[1].status = "denied"
           /\ response.proposed_actions[1].tool_name = first[1]
           /\ response.action_events = response.proposed_actions
           /\ response.actions_executed =
                  <<"denied:" \o first[1] \o ":" \o first[3]>>
           /\ response.final_text = "User denied consent for requested actions."
           /\ response.consent_token = None
           /\ last'[1].replayed = None
           /\ Len(audit') = Len(audit) + 1
           /\ SubSeq(audit', 1, Len(audit)) = audit
           /\ Last(audit').audit_id = response.audit_id
           /\ Last(audit').executed_actions = response.actions_executed
           /\ Last(audit').policy_decisions = <<<<first[1], "denied", first[3]>>>>

\* C27: a successful chat.deny replays nothing and executes no tool: its
\* response has execution_state denied, no executed event, exactly one
\* proposed action, denied, naming the first consent_required tool of the
\* response that minted the consent, actions_executed =
\* ["denied:<tool>:<rationale>"], the denial text as final_text, and one
\* audit entry is persisted for it.
DenyResponse == [][MintedByStep /\ DenyResponseStep]_vars

\* A denial of a consent that was minted for two gated calls, echo first.
DenyResponseWitness ==
    /\ last # None
    /\ last[1].op = "chat_deny"
    /\ last[1].ok
    /\ Len(SelectSeq(audit[1].policy_decisions, IsConsentDecision)) = 2
    /\ audit[1].policy_decisions[2][1] = "file.write_text"
    /\ last[1].response[1].proposed_actions[1].tool_name = "echo"
    /\ Len(audit) = 2

(***************************************************************************)
(* chat.approve step by step: the mark of the consent, the replay (the     *)
(* steps of the orchestrator loop) and the return.  call_in is the call of *)
(* chat.approve under way, with whether the write of the consent file      *)
(* succeeds; orch_in and call_out are the arguments and the locals of the  *)
(* replay; last is what chat.approve returned.                             *)
(***************************************************************************)
ApproveCall(consent_token, write_ok, pc) ==
    [consent_token |-> consent_token, write_ok |-> write_ok, pc |-> pc]

\* No call of chat.approve is under way.
ApproveIdle == IF call_in = None THEN TRUE ELSE call_in[1].pc = "returned"

\* What the provider does in the replay: it asks for the SystemActions tool
\* and then answers, answers at once, or asks for the tool without end.
ReplayBehaviours ==
    { <<ToolCalls(<<ToolCall("desktop.app.activate")>>), FinalText("done")>>,
      <<FinalText("done"), FinalText("done")>>,
      <<ToolCalls(<<ToolCall("desktop.app.activate")>>),
        ToolCalls(<<ToolCall("desktop.app.activate")>>)>> }

\* `self.mark_or_find_pending_consent(&params.consent_token, "approved")?`
\* and, when it returned Ok, rebuild_orchestrator for the run.
ApproveMark(consent_token, behaviour, write_ok) ==
    /\ ApproveIdle
    /\ \E found \in {mark_or_find_pending_consent_writing(
                        pending_consents, consent_token, "approved", now, write_ok)} :
          /\ pending_consents' = found.items
          /\ IF ~found.ok
             THEN /\ call_in' = Some(ApproveCall(consent_token, write_ok, "returned"))
                  /\ last' = Some(CallRecord("chat_approve", Some(consent_token),
                                     None, None, FALSE, found.error, None))
                  /\ call_out' = None
                  /\ UNCHANGED orch_in
             ELSE LET args == ReplayArguments(found.out[1].chat_request)
                  IN /\ call_in' = Some(ApproveCall(consent_token, write_ok, "replay"))
                     /\ orch_in' = [behaviour |-> behaviour, mode |-> args.mode,
                                    user_confirmed |-> args.user_confirmed]
                     /\ call_out' = Some(LoopState("chat", RunStart, None, <<>>,
                                                   "running"))
                     /\ last' = None
    /\ orch_out' = None
    /\ UNCHANGED <<sessions, audit, provider_state, counterVars, clockVars,
                   fsVars, mcpVars>>

\* One step of the replay.
ApproveReplay ==
    /\ call_in # None
    /\ call_in[1].pc = "replay"
    /\ \/ ProviderInvoke
       \/ BreakFinalText
       \/ BreakRoundLimit
       \/ ToolRound
    /\ UNCHANGED <<orch_in, call_in, svcVars, fsVars, mcpVars>>

\* The lines of chat_approve after the run: the audit id, the session
\* message, the audit entry and the return.
ApproveReturn ==
    /\ call_in # None
    /\ call_in[1].pc = "replay"
    /\ orch_out # None
    /\ synthetic_audit_counter < MaxAudits
    /\ LET idx == ConsentPosition(pending_consents, call_in[1].consent_token)
           pending == pending_consents[idx]
           req == pending.chat_request
       IN \E response \in {[orch_out[1].response EXCEPT
                 !.audit_id = next_synthetic_audit_id(synthetic_audit_counter),
                 !.session_id = pending.record.session_id,
                 !.execution_state = "completed",
                 !.consent_token = None,
                 !.consent_request = None]} :
             /\ synthetic_audit_counter' = synthetic_audit_counter + 1
             /\ sessions' = append_assistant_message_to_session_if_requested(
                                sessions, response.session_id, response.final_text)
             /\ audit' = persist_audit_from_response(
                             audit, response, req.provider_config.provider_name)
             /\ last' = Some(CallRecord("chat_approve",
                                Some(call_in[1].consent_token), None,
                                Some(ReplayArguments(req)), TRUE, "", Some(response)))
    /\ call_in' = Some([call_in[1] EXCEPT !.pc = "returned"])
    /\ UNCHANGED <<pending_consents, provider_state, consent_counter,
                   session_counter, clockVars, orchVars, call_out, fsVars, mcpVars>>

ApproveInit == SvcInit

ApproveNext ==
    /\ \/ \E mode \in Modes, behaviour \in IdsBehaviours :
             /\ ApproveIdle
             /\ ChatRequest(None, "", mode, behaviour)
             /\ UNCHANGED callVars
       \/ \E d \in ClockSteps : ApproveIdle /\ Tick(d) /\ UNCHANGED callVars
       \/ \E consent_token \in ConsentTokens, behaviour \in ReplayBehaviours,
             write_ok \in BOOLEAN : ApproveMark(consent_token, behaviour, write_ok)
       \/ ApproveReplay
       \/ ApproveReturn
    /\ IdsTrack

SpecApprove == ApproveInit /\ [][ApproveNext]_vars

(***************************************************************************)
(* The approval is persisted first (checked under SpecApprove)             *)
(***************************************************************************)
\* The status on disk of the consent that the call under way names.
CalledStatus ==
    pending_consents[ConsentPosition(pending_consents,
                                     call_in[1].consent_token)].record.status

\* Whenever the replay exists, from before its first provider invocation
\* to its return, the consent is approved on disk and its write succeeded.
ApprovedDuringReplay ==
    call_out # None =>
        /\ call_in # None
        /\ call_in[1].write_ok
        /\ ConsentPosition(pending_consents, call_in[1].consent_token) # 0
        /\ CalledStatus = "approved"

\* The step is the mark of a chat.approve.
MarkStep == ApproveIdle /\ call_in' # None /\ call_in' # call_in

\* The consent that the step's call names is pending and has not expired.
MarkAttempted ==
    LET idx == ConsentPosition(pending_consents, call_in'[1].consent_token)
    IN /\ idx # 0
       /\ ConsentIsPending(pending_consents[idx].record)
       /\ ~ConsentExpiredAt(pending_consents[idx].record, now)

\* A mark whose write fails returns the error; no replay starts, so that
\* neither the provider is invoked nor a tool executed, and nothing is
\* committed.
FailedMarkStep ==
    MarkStep /\ MarkAttempted /\ ~call_in'[1].write_ok =>
        /\ call_in'[1].pc = "returned"
        /\ last'[1].op = "chat_approve"
        /\ ~last'[1].ok
        /\ last'[1].error = IoErrorText
        /\ last'[1].response = None
        /\ call_out' = None
        /\ orch_out' = None
        /\ UNCHANGED <<storeVars, counterVars>>

\* A replay starts with no provider invocation and no tool result, and only
\* on a mark that returned Ok.
ReplayStartStep ==
    call_out' # None /\ call_out = None =>
        /\ MarkStep
        /\ MarkAttempted
        /\ call_out'[1].acc = RunStart
        /\ call_out'[1].handed = <<>>

\* C28: in chat.approve the status approved of the consent record is
\* persisted before the provider is invoked and before the first tool of
\* the replay executes; if persisting it fails, chat.approve returns an
\* error and neither the provider nor any tool is invoked.
ApprovedFirst ==
    []ApprovedDuringReplay /\ [][FailedMarkStep /\ ReplayStartStep]_vars

\* The replay of an approved consent has executed its tool and has not
\* returned yet.
ApprovedFirstWitness ==
    /\ call_in # None
    /\ call_in[1].pc = "replay"
    /\ call_out # None
    /\ call_out[1].acc.tool_results # <<>>
    /\ CalledStatus = "approved"
    /\ audit[Len(audit)].audit_id = FormatId("audit", 1)

\* A chat.approve returned the error of its failed write and the consent is
\* still pending.
ApproveWriteFailedWitness ==
    /\ call_in # None
    /\ ~call_in[1].write_ok
    /\ last # None
    /\ last[1].error = IoErrorText
    /\ CalledStatus = "pending"
    /\ call_out = None

(***************************************************************************)
(* Refused resolutions: the chat calls on a service with a session, while  *)
(* the clock advances.                                                     *)
(***************************************************************************)
RefusalNext ==
    /\ \/ SessionsCreate
       \/ \E session_id \in SessionChoices, mode \in Modes,
             behaviour \in IdsBehaviours :
               ChatRequest(session_id, "", mode, behaviour)
       \/ \E consent_token \in ConsentTokens :
               ChatApprove(consent_token, <<FinalText("done")>>)
       \/ \E consent_token \in ConsentTokens : ChatDeny(consent_token)
       \/ \E d \in ClockSteps : Tick(d)
    /\ IdsTrack
    /\ UNCHANGED callVars

SpecRefusal == SvcInit /\ [][RefusalNext]_vars

\* The step is a chat.approve or chat.deny that returned an error.
RefusedStep ==
    /\ last' # None
    /\ last'[1].op \in ResolutionOps
    /\ ~last'[1].ok

\* The error that belongs to the record the token names, as the record is
\* before the step; "" when the resolution is due.
RefusalOf(consent_token) ==
    LET idx == ConsentPosition(pending_consents, consent_token)
    IN IF idx = 0 THEN "consent_not_found"
       ELSE IF pending_consents[idx].record.status # "pending"
       THEN "consent_not_pending:" \o pending_consents[idx].record.status
       ELSE IF now > pending_consents[idx].record.expires_at_unix_seconds
       THEN "consent_expired"
       ELSE ""

RefusalFrameStep ==
    RefusedStep =>
        LET call == last'[1]
            idx == ConsentPosition(pending_consents, call.token[1])
        IN /\ call.error = RefusalOf(call.token[1])
           /\ call.error # ""
           /\ call.response = None
           /\ call.replayed = None
           /\ UNCHANGED <<sessions, audit, provider_state, counterVars, minted>>
           /\ IF call.error = "consent_expired"
              THEN /\ pending_consents[idx].record.status = "pending"
                   /\ pending_consents' =
                         [pending_consents EXCEPT ![idx].record.status = "expired"]
              ELSE UNCHANGED pending_consents

\* C29: a chat.approve or chat.deny that fails with consent_not_found,
\* consent_not_pending:<status> or consent_expired runs nothing, appends no
\* session message, persists no audit entry, mints no id and leaves every
\* consent record unchanged, except that a consent_expired failure changes
\* the targeted record from pending to expired on disk.
RefusalFrame == [][RefusalFrameStep]_vars

\* A resolution of a consent of a session was refused as expired: the
\* record is expired on disk and the session holds the messages of the
\* request and the text of its response, no more.
RefusalFrameWitness ==
    /\ last # None
    /\ last[1].op \in ResolutionOps
    /\ last[1].error = "consent_expired"
    /\ pending_consents[1].record.status = "expired"
    /\ pending_consents[1].record.session_id # None
    /\ Len(sessions) = 1
    /\ Len(sessions[1].messages) = 2
    /\ Len(audit) = 1

\* A resolution refused because the consent was resolved before.
RefusalNotPendingWitness ==
    /\ last # None
    /\ last[1].op = "chat_deny"
    /\ last[1].error = "consent_not_pending:approved"
    /\ Len(audit) = 2

(***************************************************************************)
(* File lock protocol (checked under SpecStore)                            *)
(***************************************************************************)
\* The writers between the creation of the lock file and its removal.
LockHolders == {w \in Writers : fs_writer[w].pc \in {"open", "write", "unlock"}}

\* At most one writer holds the lock, the lock file names it, and there is
\* no lock file without a holder.
LockExclusion ==
    /\ Cardinality(LockHolders) <= 1
    /\ \A w \in Writers : w \in LockHolders <=> fs_lock = Some(w)
    /\ fs_lock = None <=> LockHolders = {}

\* The step ends a wait: the writer creates the lock file that was gone, or
\* returns TimedOut with the lock file of another writer still there and
\* nothing written, renamed or removed.
WaitEndStep(w) ==
    fs_writer[w].pc = "wait" /\ fs_writer'[w].pc # "wait" =>
        IF fs_lock = None
        THEN /\ fs_lock' = Some(w)
             /\ fs_writer'[w].pc = "open"
             /\ UNCHANGED <<fs_dir, fs_inodes>>
        ELSE /\ fs_lock # Some(w)
             /\ fs_writer'[w] = [fs_writer[w] EXCEPT !.pc = "idle"]
             /\ UNCHANGED <<fs_lock, fs_dir, fs_inodes>>

\* Only the holder writes the temporary file, renames it or removes the
\* lock file.
HolderActsStep ==
    fs_dir' # fs_dir \/ fs_inodes' # fs_inodes \/ (fs_lock # None /\ fs_lock' # fs_lock)
        => /\ fs_lock # None
           /\ fs_writer'[fs_lock[1]] # fs_writer[fs_lock[1]]
           /\ \A w \in Writers \ {fs_lock[1]} : fs_writer'[w] = fs_writer[w]

\* The holder's write_json returns, after the rename or after an error, by
\* removing the lock file.
ReturnStep(w) ==
    w \in LockHolders /\ fs_writer'[w].pc \notin {"open", "write", "unlock"} =>
        /\ fs_writer[w].pc = "unlock"
        /\ fs_writer'[w].pc = "idle"
        /\ fs_lock = Some(w)
        /\ fs_lock' = None

\* A write that left the critical section, by the rename or by an error,
\* is about to release the lock.
WriteEndStep(w) ==
    fs_writer[w].pc = "write" /\ fs_writer'[w].pc # "write" =>
        /\ fs_writer'[w].pc = "unlock"
        /\ fs_lock' = Some(w)

\* C30: at most one writer is between the acquisition of the lock and its
\* release; a writer that finds the lock held retries and, at the wait
\* bound, returns a timeout without writing the temporary file, renaming or
\* removing the lock it does not hold; the holder removes the lock when its
\* write returns, after a success or a failure.
LockProtocol ==
    /\ []LockExclusion
    /\ [][/\ \A w \in Writers : WaitEndStep(w) /\ ReturnStep(w) /\ WriteEndStep(w)
          /\ HolderActsStep]_vars

\* Writer 2 has timed out on its first write_json, having opened nothing,
\* while writer 1 holds the lock in the middle of its write.
LockProtocolWitness ==
    /\ fs_lock = Some(1)
    /\ fs_writer[1].pc = "write"
    /\ fs_writer[1].written = 1
    /\ fs_writer[2] = [pc |-> "idle", writes |-> 1, fd |-> 0, written |-> 0]
    /\ fs_dir["target"] = None

(***************************************************************************)
(* The end of an MCP child: the service of SpecMcp with its drop and the   *)
(* construction of its successor as two steps.  Between the two no         *)
(* AgentService exists on the store directory.                             *)
(***************************************************************************)
\* Drop for AgentService has run and no service has been constructed since.
Dropped == mcp_last # None /\ mcp_last[1].op = "drop"

\* Drop for AgentService: every tracked child is stopped; no store file is
\* read or written.
Drop ==
    /\ restarts < MaxRestarts
    /\ os_alive' = os_alive \ {mcp_processes[id] : id \in DOMAIN mcp_processes}
    /\ mcp_processes' = <<>>
    /\ mcp_exited' = {}
    /\ mcp_last' = Some([op |-> "drop"])
    /\ UNCHANGED <<mcp_servers, mcp_counter, next_pid, restarts, mcp_normalized>>

\* new_for_platform_with_storage on the store directory a dropped service left
Construct ==
    /\ restarts' = restarts + 1
    /\ mcp_counter' = HydratedMcpCounter(mcp_servers)
    /\ mcp_normalized' = {mcp_servers[i].id : i \in RunningRecords(mcp_servers)}
    /\ mcp_servers' = normalize_mcp_statuses_on_startup(mcp_servers)
    /\ mcp_last' = None
    /\ UNCHANGED <<mcp_processes, os_alive, next_pid, mcp_exited>>

TeardownNext ==
    /\ IF Dropped
       THEN Construct
       ELSE \/ McpServersAdd
            \/ \E server_id \in ServerIds : McpServersRemove(server_id)
            \/ \E server_id \in ServerIds, spawned \in BOOLEAN :
                  McpServersStart(server_id, spawned)
            \/ \E server_id \in ServerIds : McpServersStop(server_id)
            \/ McpServersList
            \/ SystemHealth
            \/ \E pid \in 1..MaxSpawns : ChildExit(pid)
            \/ Drop
    /\ UNCHANGED <<orchVars, svcVars, fsVars>>
    /\ IdsTrack
    /\ UNCHANGED callVars

SpecTeardown == McpInit /\ [][TeardownNext]_vars

(***************************************************************************)
(* Reaped and marked stopped (checked under SpecTeardown)                  *)
(***************************************************************************)
\* After the step no child is tracked under the id and the child that was
\* tracked under it is not alive.
Reaped(server_id) ==
    /\ server_id \notin DOMAIN mcp_processes'
    /\ server_id \in DOMAIN mcp_processes =>
          mcp_processes[server_id] \notin os_alive'

\* After the step every record with the id is stopped.
MarkedStopped(server_id) ==
    \A i \in DOMAIN mcp_servers' :
       mcp_servers'[i].id = server_id => mcp_servers'[i].status = "stopped"

\* After the step no record has the id.
RecordGone(server_id) ==
    \A i \in DOMAIN mcp_servers' : mcp_servers'[i].id # server_id

StopEndsChild ==
    \A server_id \in ServerIds :
       McpServersStop(server_id) => Reaped(server_id) /\ MarkedStopped(server_id)

RemoveEndsChild ==
    \A server_id \in ServerIds :
       McpServersRemove(server_id) => Reaped(server_id) /\ RecordGone(server_id)

\* A list or health step on a table with exited children.
ObservedExitEndsChild ==
    (McpServersList \/ SystemHealth) =>
       \A server_id \in ExitedIds(mcp_processes) :
          Reaped(server_id) /\ MarkedStopped(server_id)

\* C31: after each of mcp.servers.stop, mcp.servers.remove, the drop of the
\* AgentService and an exit observed by mcp.servers.list or system.health,
\* the server's child is no longer tracked in the child table and its
\* persisted status is stopped (for remove: the record is gone).
ChildEnded ==
    [][/\ StopEndsChild
       /\ RemoveEndsChild
       /\ ObservedExitEndsChild
       /\ Drop => \A server_id \in DOMAIN mcp_processes :
                     Reaped(server_id) /\ MarkedStopped(server_id)]_vars

\* The drop reaps every tracked child and writes nothing: the records stay
\* as they were, running ones included.  The construction of the next
\* service on the store leaves no record running.
DropEndsChild ==
    /\ Drop => /\ \A server_id \in DOMAIN mcp_processes : Reaped(server_id)
               /\ mcp_servers' = mcp_servers
    /\ Construct => /\ RunningRecords(mcp_servers') = {}
                    /\ mcp_processes' = <<>>

\* What holds of C31: stop, remove and an exit observed by list or health
\* leave the child untracked and the record stopped (remove: gone); the drop
\* leaves the child untracked and the record as it was, and the record is
\* stopped once the next service is constructed on the store.
ChildEndedOrStoppedAtStartup ==
    [][StopEndsChild /\ RemoveEndsChild /\ ObservedExitEndsChild
          /\ DropEndsChild]_vars

\* A service whose child was running has been dropped: the child is gone and
\* its record on disk is still running.
DroppedRunningWitness ==
    /\ Dropped
    /\ RunningIds # {}
    /\ os_alive = {}
    /\ next_pid > 1

\* The next service was constructed on a store with a running record, after
\* a stop and a second start of the server.
ChildEndedWitness ==
    /\ restarts = 1
    /\ mcp_normalized # {}
    /\ next_pid > MaxSpawns
    /\ RunningIds = {}

(***************************************************************************)
(* Specification of the session history: a service with up to MaxMinted    *)
(* sessions, created and deleted in any order, and chat.request calls that *)
(* carry one or two messages and name a session, or none.                  *)
(***************************************************************************)
\* The messages of a chat.request: one message, or two in either order.
SessionRequests ==
    { <<ChatMessage("user", "do it")>>,
      <<ChatMessage("system", "be brief"), ChatMessage("user", "do it")>>,
      <<ChatMessage("user", "do it"), ChatMessage("system", "be brief")>> }

SessionsNext ==
    /\ \/ /\ sessions_create
          /\ session_counter' <= MaxMinted
       \/ \E session_id \in MintedSessionIds : SessionsDelete(session_id)
       \/ \E messages \in SessionRequests,
             session_id \in {None} \cup {Some(id) : id \in MintedSessionIds},
             behaviour \in IdsBehaviours :
             /\ synthetic_audit_counter < MaxAudits
             /\ chat_request_of(messages, session_id, "", "RequireConfirmation",
                                behaviour)
             /\ consent_counter' <= MaxConsents
    /\ IdsTrack
    /\ UNCHANGED callVars

SpecSessions == SvcInit /\ [][SessionsNext]_vars

(***************************************************************************)
(* Session history (checked under SpecSessions)                            *)
(***************************************************************************)
\* A chat.request step whose request names a session that is on disk.
BoundRequestStep ==
    /\ ChatRequestStep
    /\ last'[1].request[1].session_id # None
    /\ SessionPosition(sessions, last'[1].request[1].session_id[1]) # 0

SessionHistoryStep ==
    BoundRequestStep =>
        LET request == last'[1].request[1]
            response == last'[1].response[1]
            idx == SessionPosition(sessions, request.session_id[1])
        IN /\ Len(sessions') = Len(sessions)
           /\ sessions'[idx].id = sessions[idx].id
           /\ sessions'[idx].messages =
                 sessions[idx].messages \o request.messages
                    \o <<ChatMessage("assistant", response.final_text)>>
           /\ \A i \in DOMAIN sessions : i # idx => sessions'[i] = sessions[i]

\* C32: after chat.request with the session_id of an existing session, that
\* session's messages are its previous messages, followed by the request's
\* messages in order, followed by exactly one assistant message whose
\* content is the response's final_text; no other session is changed.
SessionHistory == [][SessionHistoryStep]_vars

\* Two sessions are on disk; the second holds two turns, the later one a
\* request of two messages that was answered with a consent prompt, and the
\* first session holds nothing.
SessionHistoryWitness ==
    /\ last # None /\ last[1].op = "chat_request"
    /\ last[1].response[1].consent_token # None
    /\ Len(last[1].request[1].messages) = 2
    /\ Len(sessions) = 2
    /\ sessions[1].messages = <<>>
    /\ last[1].request[1].session_id = Some(sessions[2].id)
    /\ Len(sessions[2].messages) = 5

(***************************************************************************)
(* Specification of system.health among the chat calls: consents are       *)
(* minted, approved, denied and left to expire, and system.health is       *)
(* called at any point.                                                    *)
(***************************************************************************)
\* system.health on the service: it writes no file but mcp_servers.json.
HealthCall ==
    /\ SystemHealth
    /\ UNCHANGED <<orchVars, svcVars, fsVars>>

HealthNext ==
    /\ \/ \E mode \in Modes, behaviour \in IdsBehaviours :
             ChatRequest(None, "", mode, behaviour)
       \/ \E consent_token \in ConsentTokens :
             ChatApprove(consent_token, <<FinalText("done")>>)
       \/ \E consent_token \in ConsentTokens : ChatDeny(consent_token)
       \/ \E d \in ClockSteps : Tick(d)
       \/ HealthCall
    /\ IdsTrack
    /\ UNCHANGED callVars

SpecHealth == SvcInit /\ [][HealthNext]_vars

(***************************************************************************)
(* The consent count of system.health (checked under SpecHealth)           *)
(***************************************************************************)
\* C33: system.health reports pending_consents equal to the number of
\* consent records whose status is pending at the time of the call, after
\* any sequence of chat.request, approve and deny; approved, denied and
\* expired records are not counted.
HealthCountsPending ==
    [][HealthCall =>
          mcp_last'[1].pending_consents =
             Cardinality(PendingRecords(pending_consents))]_vars

\* What holds of C33: system.health reports the number of records in the
\* consent file, which is the number of pending records as long as no record
\* has been approved, denied or marked expired.
HealthCountsRecords ==
    [][HealthCall =>
          /\ mcp_last'[1].pending_consents = Len(pending_consents)
          /\ (\A i \in DOMAIN pending_consents :
                 pending_consents[i].record.status = "pending") =>
                mcp_last'[1].pending_consents =
                   Cardinality(PendingRecords(pending_consents))]_vars

\* system.health has counted one pending consent in a call made when the
\* only record of the consent file was denied and no record was pending.
HealthCountsResolvedWitness ==
    /\ mcp_last # None /\ mcp_last[1].op = "system_health"
    /\ mcp_last[1].pending_consents = 1
    /\ mcp_last[1].pending_then = 0
    /\ Len(pending_consents) = 1
    /\ pending_consents[1].record.status = "denied"

(***************************************************************************)
(* Specification of the replay with one provider: the service talks to a   *)
(* provider that answers the n-th invocation of every run with the same    *)
(* reply, in the minting run and in the replay alike.  call_in holds that  *)
(* provider.                                                               *)
(***************************************************************************)
\* The provider asks for a LocalActions tool and, once it has the result,
\* for a SystemActions tool; or for a SystemActions tool only; or for a
\* ReadOnly and a LocalActions tool in one reply.
ReplayProviders ==
    { <<ToolCalls(<<ToolCall("file.write_text")>>),
        ToolCalls(<<ToolCall("desktop.app.activate")>>), FinalText("done")>>,
      <<ToolCalls(<<ToolCall("desktop.app.activate")>>), FinalText("done")>>,
      <<ToolCalls(<<ToolCall("echo"), ToolCall("file.write_text")>>),
        FinalText("done")>> }

ReplayInit ==
    /\ call_in \in {Some([provider |-> behaviour]) : behaviour \in ReplayProviders}
    /\ call_out = None
    /\ OrchIdle
    /\ SvcIdle
    /\ FsIdle
    /\ McpIdle
    /\ IdsIdle

ReplayNext ==
    /\ \/ \E mode \in Modes : ChatRequest(None, "", mode, call_in[1].provider)
       \/ \E consent_token \in ConsentTokens :
             ChatApprove(consent_token, call_in[1].provider)
       \/ \E consent_token \in ConsentTokens : ChatDeny(consent_token)
       \/ \E d \in ClockSteps : Tick(d)
    /\ IdsTrack
    /\ UNCHANGED callVars

SpecReplay == ReplayInit /\ [][ReplayNext]_vars

(***************************************************************************)
(* What the replay executes (checked under SpecReplay)                     *)
(***************************************************************************)
ApproveStep == last' # None /\ last'[1].op = "chat_approve" /\ last'[1].ok

GatedTier(tier) == tier \in {"LocalActions", "SystemActions"}

\* The policy decisions of the response that minted the consent a step
\* resolves: tool, status and reason of each of its proposed actions.
MintingDecisions ==
    MintingEntriesOf(audit)[ConsentPosition(pending_consents,
                                            last'[1].token[1])].policy_decisions

\* The tools the minting response showed with status consent_required.
ShownTools ==
    {MintingDecisions[i][1] :
        i \in {j \in DOMAIN MintingDecisions : IsConsentDecision(MintingDecisions[j])}}

\* C35: every tool of tier LocalActions or SystemActions that is executed
\* during a chat.approve replay appeared with status consent_required in the
\* proposed_actions of the chat.request response that minted the approved
\* consent; the replay executes no gated tool that the user was not shown.
ReplayExecutesShownOnly ==
    [][ApproveStep =>
          \A i \in DOMAIN last'[1].response[1].executed_action_events :
             LET event == last'[1].response[1].executed_action_events[i]
             IN GatedTier(event.capability_tier) => event.tool_name \in ShownTools]_vars

\* What holds of C35, with a provider that answers the replay as it answered
\* the minting run: the calls of the replay begin with the calls of the
\* minting response, in order, and a gated tool executed among them was shown
\* there with status consent_required.  Nothing bounds what the replay
\* executes after them.
ReplayBeginsWithShown ==
    [][/\ MintedByStep
       /\ ApproveStep =>
             LET proposed == last'[1].response[1].proposed_actions
             IN /\ last'[1].replayed[1].user_confirmed
                /\ Len(proposed) >= Len(MintingDecisions)
                /\ \A i \in DOMAIN MintingDecisions :
                      /\ proposed[i].tool_name = MintingDecisions[i][1]
                      /\ GatedTier(proposed[i].capability_tier)
                            /\ proposed[i].status = "approved" =>
                               IsConsentDecision(MintingDecisions[i])]_vars

\* A chat.approve has executed desktop.app.activate, a SystemActions tool,
\* in the round after the file.write_text the minting response showed; the
\* minting response showed no other tool.
ReplayExecutesUnshownWitness ==
    /\ last # None /\ last[1].op = "chat_approve" /\ last[1].ok
    /\ Len(audit) = 2
    /\ audit[1].policy_decisions =
          <<<<"file.write_text", "consent_required", ConsentReason("file.write_text")>>>>
    /\ \E i \in DOMAIN last[1].response[1].executed_action_events :
          /\ last[1].response[1].executed_action_events[i].tool_name =
                "desktop.app.activate"
          /\ last[1].response[1].executed_action_events[i].capability_tier =
                "SystemActions"

(***************************************************************************)
(* Two AgentService instances on one store directory.  Each instance runs  *)
(* its chat calls one after the other; the calls of different instances    *)
(* interleave between store accesses.  A step is one store access, a read  *)
(* (read_json, which takes no lock) or a write (write_json, which holds    *)
(* the lock of the file from the creation of the temporary file to the     *)
(* rename), together with the computation that precedes it in the handler. *)
(* pending_consents and audit are the two files; call_in holds each        *)
(* instance's counters and its position in the handler it runs, call_out   *)
(* the results of the calls that have returned.                            *)
(***************************************************************************)
NumInstances == 2
\* Most chat calls one instance makes.
MaxSharedCalls == 2

Instances == 1..NumInstances

\* The provider each instance names in its requests.
SharedProvider(p) == "provider-" \o Decimal(p)

\* An instance constructed on the empty store, between two calls.
InstanceIdle ==
    [pc |-> "idle", op |-> "", token |-> None, provider |-> "",
     response |-> None, pending |-> None, snapshot |-> <<>>, to_write |-> <<>>,
     consent_counter |-> 0, audit_counter |-> 0, calls |-> 0, raced |-> FALSE]

\* What a call returned: Ok(response) or Err(error).
SharedResult(op, token, provider, ok, error, response) ==
    [op |-> op, token |-> token, provider |-> provider, ok |-> ok,
     error |-> error, response |-> response]

SharedInit ==
    /\ call_in = [p \in Instances |-> InstanceIdle]
    /\ call_out = [p \in Instances |-> <<>>]
    /\ OrchIdle
    /\ SvcIdle
    /\ FsIdle
    /\ McpIdle
    /\ IdsIdle

SharedFrame ==
    UNCHANGED <<orchVars, sessions, provider_state, counterVars, clockVars, last,
                fsVars, mcpVars, idVars>>

\* chat_request up to its first store access: the run, then the read of the
\* consent file in attach_or_create_consent when the response asks for
\* consent, else the read of the audit log in persist_audit_from_response.
BeginRequest(p, mode, behaviour) ==
    /\ call_in[p].pc = "idle"
    /\ call_in[p].calls < MaxSharedCalls
    /\ LET params == ChatRequestOf(None, RequestMessages, SharedProvider(p), mode)
           attached == attach_or_create_consent(
               pending_consents, call_in[p].consent_counter, params,
               [ChatResponse(run(behaviour, mode)) EXCEPT
                   !.audit_id = next_synthetic_audit_id(call_in[p].audit_counter),
                   !.session_id = None],
               now)
           response == [attached.response EXCEPT
                           !.execution_state =
                               IF attached.response.consent_token # None
                               THEN "awaiting_consent" ELSE "completed"]
           started == [call_in[p] EXCEPT
                          !.op = "chat_request", !.token = None,
                          !.provider = SharedProvider(p),
                          !.response = Some(response), !.pending = None,
                          !.audit_counter = @ + 1, !.calls = @ + 1]
       IN call_in' = [call_in EXCEPT ![p] =
             IF response.consent_token # None
             THEN [started EXCEPT !.pc = "consent_write",
                                  !.snapshot = pending_consents,
                                  !.to_write = attached.items,
                                  !.consent_counter = attached.counter]
             ELSE [started EXCEPT !.pc = "audit_write",
                                  !.snapshot = audit,
                                  !.to_write = persist_audit_from_response(
                                      audit, response, SharedProvider(p))]]
    /\ UNCHANGED <<pending_consents, audit, call_out>>
    /\ SharedFrame

\* attach_or_create_consent: write_pending_consents(&items)
ConsentWrite(p) ==
    /\ call_in[p].pc = "consent_write"
    /\ pending_consents' = call_in[p].to_write
    /\ call_in' = [call_in EXCEPT ![p] =
          [@ EXCEPT !.pc = "audit_read",
                    !.raced = @ \/ pending_consents # call_in[p].snapshot]]
    /\ UNCHANGED <<audit, call_out>>
    /\ SharedFrame

\* persist_audit_from_response: read_audit_entries() and the push
AuditRead(p) ==
    /\ call_in[p].pc = "audit_read"
    /\ call_in' = [call_in EXCEPT ![p] =
          [@ EXCEPT !.pc = "audit_write",
                    !.snapshot = audit,
                    !.to_write = persist_audit_from_response(
                        audit, call_in[p].response[1], call_in[p].provider)]]
    /\ UNCHANGED <<pending_consents, audit, call_out>>
    /\ SharedFrame

\* persist_audit_from_response: write_audit_entries(&audits); the handler
\* returns its response.
AuditWrite(p) ==
    /\ call_in[p].pc = "audit_write"
    /\ audit' = call_in[p].to_write
    /\ call_in' = [call_in EXCEPT ![p] =
          [@ EXCEPT !.pc = "idle", !.raced = @ \/ audit # call_in[p].snapshot]]
    /\ call_out' = [call_out EXCEPT ![p] =
          Append(@, SharedResult(call_in[p].op, call_in[p].token,
                                 call_in[p].provider, TRUE, "",
                                 call_in[p].response))]
    /\ UNCHANGED pending_consents
    /\ SharedFrame

\* chat_approve and chat_deny up to the end of the checks of
\* mark_or_find_pending_consent: the read of the consent file, and the
\* return of the error when the consent is not found or not pending.
BeginResolve(p, op, consent_token) ==
    /\ call_in[p].pc = "idle"
    /\ call_in[p].calls < MaxSharedCalls
    /\ LET found == mark_or_find_pending_consent(
                        pending_consents, consent_token,
                        IF op = "chat_approve" THEN "approved" ELSE "denied", now)
           started == [call_in[p] EXCEPT
                          !.op = op, !.token = Some(consent_token),
                          !.response = None, !.pending = found.out,
                          !.snapshot = pending_consents,
                          !.to_write = found.items, !.calls = @ + 1]
       IN IF found.ok
          THEN /\ call_in' = [call_in EXCEPT ![p] = [started EXCEPT !.pc = "mark_write"]]
               /\ UNCHANGED call_out
          ELSE IF found.items # pending_consents
          THEN /\ call_in' = [call_in EXCEPT ![p] = [started EXCEPT !.pc = "expire_write"]]
               /\ UNCHANGED call_out
          ELSE /\ call_in' = [call_in EXCEPT ![p] = started]
               /\ call_out' = [call_out EXCEPT ![p] =
                     Append(@, SharedResult(op, Some(consent_token), "", FALSE,
                                            found.error, None))]
    /\ UNCHANGED <<pending_consents, audit>>
    /\ SharedFrame

\* mark_or_find_pending_consent: the write of the expired status, and the
\* return of consent_expired
ExpireWrite(p) ==
    /\ call_in[p].pc = "expire_write"
    /\ pending_consents' = call_in[p].to_write
    /\ call_in' = [call_in EXCEPT ![p] =
          [@ EXCEPT !.pc = "idle",
                    !.raced = @ \/ pending_consents # call_in[p].snapshot]]
    /\ call_out' = [call_out EXCEPT ![p] =
          Append(@, SharedResult(call_in[p].op, call_in[p].token, "", FALSE,
                                 "consent_expired", None))]
    /\ UNCHANGED audit
    /\ SharedFrame

\* mark_or_find_pending_consent: the write of the new status; then the
\* replay of chat_approve or the response_for_denial of chat_deny, up to
\* the read of the audit log.
MarkWrite(p) ==
    /\ call_in[p].pc = "mark_write"
    /\ pending_consents' = call_in[p].to_write
    /\ LET pending == call_in[p].pending[1]
           req == pending.chat_request
           args == ReplayArguments(req)
           audit_id == next_synthetic_audit_id(call_in[p].audit_counter)
           response ==
              IF call_in[p].op = "chat_approve"
              THEN [ChatResponse(run_with_confirmation(
                        <<FinalText("done")>>, args.mode, args.user_confirmed))
                       EXCEPT !.audit_id = audit_id,
                              !.session_id = pending.record.session_id,
                              !.execution_state = "completed",
                              !.consent_token = None,
                              !.consent_request = None]
              ELSE response_for_denial(pending, audit_id)
       IN call_in' = [call_in EXCEPT ![p] =
             [@ EXCEPT !.pc = "audit_read",
                       !.provider = req.provider_config.provider_name,
                       !.response = Some(response),
                       !.audit_counter = @ + 1,
                       !.raced = @ \/ pending_consents # call_in[p].snapshot]]
    /\ UNCHANGED <<audit, call_out>>
    /\ SharedFrame

SharedNext ==
    \/ \E p \in Instances, behaviour \in IdsBehaviours :
          BeginRequest(p, "RequireConfirmation", behaviour)
    \/ \E p \in Instances : ConsentWrite(p)
    \/ \E p \in Instances : AuditRead(p)
    \/ \E p \in Instances : AuditWrite(p)
    \/ \E p \in Instances, op \in {"chat_approve", "chat_deny"},
          consent_token \in ConsentTokens : BeginResolve(p, op, consent_token)
    \/ \E p \in Instances : ExpireWrite(p)
    \/ \E p \in Instances : MarkWrite(p)
    \/ /\ \E d \in ClockSteps : Tick(d)
       /\ UNCHANGED <<callVars, idVars>>

SpecShared == SharedInit /\ [][SharedNext]_vars

(***************************************************************************)
(* Single use and lost writes across instances (checked under SpecShared)  *)
(***************************************************************************)
\* The calls that have returned, as <<instance, index>>.
Returned == {<<p, k>> : p \in Instances, k \in 1..MaxSharedCalls} \cap
               {pk \in Instances \X (1..MaxSharedCalls) :
                   pk[2] \in DOMAIN call_out[pk[1]]}

ResultOf(pk) == call_out[pk[1]][pk[2]]

\* The chat.approve and chat.deny calls on a consent that returned Ok.
Resolutions(consent_id) ==
    {pk \in Returned :
        /\ ResultOf(pk).op \in {"chat_approve", "chat_deny"}
        /\ ResultOf(pk).token = Some(consent_id)
        /\ ResultOf(pk).ok}

\* The replays of the request bound to a consent: the chat.approve calls
\* that returned Ok and those that are past the replay.
Replays(consent_id) ==
    {pk \in Resolutions(consent_id) : ResultOf(pk).op = "chat_approve"}
       \cup {<<p, 0>> : p \in {q \in Instances :
                                 /\ call_in[q].op = "chat_approve"
                                 /\ call_in[q].token = Some(consent_id)
                                 /\ call_in[q].pc \in {"audit_read", "audit_write"}}}

\* C36: single use across instances: when two AgentService instances share
\* one store directory and both call chat.approve or chat.deny with the same
\* pending consent id, interleaved at the granularity of store reads and
\* locked writes, at most one of the two calls succeeds and the bound
\* request is replayed at most once.
SingleUseAcrossInstances ==
    \A consent_id \in ConsentTokens :
       /\ Cardinality(Resolutions(consent_id)) <= 1
       /\ Cardinality(Replays(consent_id)) <= 1

\* No instance has written a file that another instance had changed since
\* the writer read it.
NoStaleWrite == \A p \in Instances : ~call_in[p].raced

\* What holds of C36: as long as no instance writes a store file over a
\* change made since it read the file, at most one resolution of a consent
\* succeeds and its request is replayed at most once.
SingleUseWithoutStaleWrite == NoStaleWrite => SingleUseAcrossInstances

\* One consent record is on disk; a chat.approve of one instance and a
\* chat.deny of another have both returned Ok for it: the request was
\* replayed and the record says denied.
DoubleResolutionWitness ==
    /\ Len(pending_consents) = 1
    /\ pending_consents[1].record.status = "denied"
    /\ \E pk \in Returned, qk \in Returned :
          /\ pk[1] # qk[1]
          /\ {pk, qk} \subseteq Resolutions(pending_consents[1].record.consent_id)
          /\ ResultOf(pk).op = "chat_approve"
          /\ ResultOf(qk).op = "chat_deny"
    /\ \A p \in Instances : call_in[p].pc = "idle"

\* The audit entry of a returned response is in audit.json.
EntryKept(pk) ==
    \E i \in DOMAIN audit :
       audit[i] = AuditEntry(ResultOf(pk).response[1], ResultOf(pk).provider)

\* The consent record a returned chat.request minted is in
\* pending_consents.json.
RecordKept(pk) ==
    (ResultOf(pk).op = "chat_request"
        /\ ResultOf(pk).response[1].consent_token # None) =>
       \E i \in DOMAIN pending_consents :
          /\ pending_consents[i].record.consent_id =
                ResultOf(pk).response[1].consent_token[1]
          /\ pending_consents[i].chat_request.provider_config.provider_name =
                SharedProvider(pk[1])

\* Every response returned so far has its audit entry and its consent
\* record on disk.
AllKept ==
    \A pk \in Returned :
       ResultOf(pk).response # None => EntryKept(pk) /\ RecordKept(pk)

\* C37: when two AgentService instances share one store directory and their
\* chat.request, chat.approve or chat.deny calls interleave at the
\* granularity of store reads and locked writes, then once both calls have
\* returned, audit.json contains the audit entry of each of the two
\* responses, and no consent record minted by either call is missing from
\* pending_consents.json.
NothingLostAcrossInstances ==
    (\A p \in Instances : call_in[p].pc = "idle") => AllKept

\* What holds of C37: as long as no instance writes a store file over a
\* change made since it read the file, the audit entry of every returned
\* response and every consent record minted are on disk.
NothingLostWithoutStaleWrite == NoStaleWrite => AllKept

\* Two instances have each returned the response of a chat.request that
\* minted a consent, and one audit entry and one consent record are on disk.
LostWritesWitness ==
    /\ \A p \in Instances :
          /\ call_in[p].pc = "idle"
          /\ Len(call_out[p]) = 1
          /\ call_out[p][1].op = "chat_request"
          /\ call_out[p][1].response[1].consent_token # None
    /\ Len(audit) = 1
    /\ Len(pending_consents) = 1

(***************************************************************************)
(* Specification of the project scope after project.open: a path is given  *)
(* to project.open, which keeps it as the project root when it exists and  *)
(* is a directory; then a file tool resolves a requested path with the     *)
(* backend that rebuild_orchestrator makes from the project state.         *)
(***************************************************************************)
\* The paths given to project.open: absolute and relative, with ".", ".."
\* and a name.
OpenSymbols == {".", "..", "a"}
OpenPaths ==
    {PathOf(abs, comps) : abs \in BOOLEAN, comps \in SeqsUpTo(OpenSymbols, MaxRootLen)}

\* project_open: the open_path of project.json afterwards.  exists and
\* is_dir are what Path::exists and Path::is_dir say of the path.
project_open(open_path, path, exists, is_dir) ==
    IF exists /\ is_dir THEN Some(path) ELSE open_path

\* rebuild_orchestrator: the project root handed to the backend, None when
\* no path is open or the open path is blank.
RebuildProjectRoot(open_path) ==
    IF open_path # None /\ ~open_path[1].abs /\ open_path[1].comps = <<>>
    THEN None ELSE open_path

ScopeInit ==
    /\ call_in \in [path : OpenPaths,
                    found : {<<FALSE, FALSE>>, <<TRUE, FALSE>>, <<TRUE, TRUE>>},
                    requested : RequestedPaths]
    /\ call_out = None
    /\ OrchIdle
    /\ SvcIdle
    /\ FsIdle
    /\ McpIdle
    /\ IdsIdle

\* project.open on a store with no project open
ProjectOpen ==
    /\ call_out = None
    /\ call_out' = Some([open_path |-> project_open(None, call_in.path,
                                                    call_in.found[1],
                                                    call_in.found[2]),
                         scoped |-> None])
    /\ UNCHANGED <<call_in, orchVars, svcVars, fsVars, mcpVars, idVars>>

\* A file tool resolves its path in the process whose current directory is
\* WorkingDir.
ScopeRequest ==
    /\ call_out # None
    /\ call_out[1].scoped = None
    /\ call_out' = Some([call_out[1] EXCEPT
          !.scoped = Some(scoped_path(RebuildProjectRoot(call_out[1].open_path),
                                      Some(PathOf(TRUE, <<"b", "c">>)),
                                      call_in.requested))])
    /\ UNCHANGED <<call_in, orchVars, svcVars, fsVars, mcpVars, idVars>>

ScopeNext == ProjectOpen \/ ScopeRequest

SpecScope == ScopeInit /\ [][ScopeNext]_vars

(***************************************************************************)
(* Escapes from an opened project (checked under SpecScope)                *)
(***************************************************************************)
\* project.open accepted the path and a file tool has resolved a request.
ScopedInOpened ==
    /\ call_out # None
    /\ call_out[1].scoped # None
    /\ call_out[1].open_path # None
    /\ RebuildProjectRoot(call_out[1].open_path) # None

\* The request leads outside the opened root: its ".." components climb
\* above the root, or it is absolute and lies outside the root.
Escapes ==
    ~Inside(Location(Candidate(call_out[1].open_path[1], call_in.requested)),
            Location(call_out[1].open_path[1]))

EscapeRejected ==
    /\ ~call_out[1].scoped[1].ok
    /\ call_out[1].scoped[1].error = "path_outside_project_scope"

\* C38: for every project root that project.open accepts, including relative
\* roots such as "." or "a/..", a requested path whose ".." components climb
\* above the root, and an absolute requested path that lies outside the
\* root, is rejected by scoped_path with path_outside_project_scope.
EscapesRejected == (ScopedInOpened /\ Escapes) => EscapeRejected

\* What holds of C38: the escapes are rejected for every accepted root that
\* is an absolute path.
EscapesRejectedFromAbsoluteRoot ==
    (ScopedInOpened /\ Escapes /\ call_out[1].open_path[1].abs) => EscapeRejected

\* The project root is "a/..", the request is an absolute path outside the
\* current directory, and scoped_path returned it as the path to work on.
EscapeAcceptedWitness ==
    /\ ScopedInOpened
    /\ call_out[1].open_path[1] = PathOf(FALSE, <<"a", "..">>)
    /\ call_in.requested = Some(PathOf(TRUE, <<"a", "b">>))
    /\ Escapes
    /\ call_out[1].scoped[1].ok
    /\ call_out[1].scoped[1].path = call_in.requested

\* The project root is the absolute path "/a/.", the request climbs above
\* it with "..", and scoped_path rejected it.
EscapeRejectedWitness ==
    /\ ScopedInOpened
    /\ call_out[1].open_path[1] = PathOf(TRUE, <<"a", ".">>)
    /\ call_in.requested = Some(PathOf(FALSE, <<"..", "b">>))
    /\ Escapes
    /\ EscapeRejected

(***************************************************************************)
(* The ids over the lifetime of a store directory: the handlers that mint  *)
(* and remove records and the construction of a new service on the same    *)
(* directory, with the history of minted ids kept across the restarts.     *)
(***************************************************************************)
LifetimeSessions == {None} \cup {Some(id) : id \in MintedSessionIds}

\* The history of minted ids of the store directory: every step adds the ids
\* it pushed, and a step that constructs a new service keeps the history.
LifetimeTrack ==
    /\ at_start' =
          IF restarts' # restarts
          THEN IdsOnDisk(sessions', pending_consents', audit', mcp_servers')
          ELSE at_start
    /\ minted' =
          [k \in IdKinds |->
              minted[k] \o
              CASE k = "sess" -> Pushed(sessions, sessions', LAMBDA r : r.id)
                [] k = "consent" ->
                      Pushed(pending_consents, pending_consents',
                             LAMBDA r : r.record.consent_id)
                [] k = "audit" -> Pushed(audit, audit', LAMBDA r : r.audit_id)
                [] k = "mcp" -> Pushed(mcp_servers, mcp_servers', LAMBDA r : r.id)]

LifetimeNext ==
    /\ \/ /\ sessions_create
          /\ Len(minted["sess"]) < MaxMinted
       \/ \E session_id \in MintedSessionIds : SessionsDelete(session_id)
       \/ \E session_id \in LifetimeSessions, behaviour \in IdsBehaviours :
             /\ chat_request(session_id, "", "RequireConfirmation", behaviour)
             /\ Len(minted["audit"]) < MaxMinted
             /\ consent_counter' <= MaxMinted
       \/ /\ mcp_servers_add
          /\ Len(minted["mcp"]) < MaxMinted
          /\ UNCHANGED <<orchVars, svcVars, fsVars>>
       \/ \E server_id \in MintedServerIds :
             /\ McpServersRemove(server_id)
             /\ UNCHANGED <<orchVars, svcVars, fsVars>>
       \/ ServiceRestart
    /\ LifetimeTrack
    /\ UNCHANGED callVars

SpecLifetime == SvcInit /\ [][LifetimeNext]_vars

\* No id occurs twice in the history of the ids of a kind.
MintedOnce(k) ==
    \A i, j \in DOMAIN minted[k] : minted[k][i] = minted[k][j] => i = j

\* The session ids the consent and audit records on disk refer to.
ReferencedSessions(cs, as) ==
    {cs[i].record.session_id[1] :
        i \in {j \in DOMAIN cs : cs[j].record.session_id # None}}
    \cup {as[i].session_id[1] : i \in {j \in DOMAIN as : as[j].session_id # None}}

\* A step that mints a session id mints one that no consent or audit record
\* refers to as the id of an earlier session.
ReferenceKeptStep ==
    \A j \in (Len(minted["sess"]) + 1)..Len(minted'["sess"]) :
       minted'["sess"][j] \notin
          ReferencedSessions(pending_consents, audit)
             \cap {minted["sess"][i] : i \in DOMAIN minted["sess"]}

\* C39: over the lifetime of the store directory no session id and no mcp id
\* is minted twice, and no session is created under an id that a consent or
\* audit record on disk refers to.
NeverMintedAgain ==
    /\ [](MintedOnce("sess") /\ MintedOnce("mcp"))
    /\ [][ReferenceKeptStep]_vars

\* A step mints an id that is in the history only in a process constructed
\* on a store with no record of that id and with every suffix of the kind
\* below the suffix of the id.
MintedAgainStep ==
    \A k \in IdKinds : \A j \in (Len(minted[k]) + 1)..Len(minted'[k]) :
       (\E i \in DOMAIN minted[k] : minted[k][i] = minted'[k][j]) =>
          /\ restarts > 0
          /\ minted'[k][j] \notin at_start[k]
          /\ minted'[k][j] \notin
                IdsOnDisk(sessions, pending_consents, audit, mcp_servers)[k]
          /\ \A id \in at_start[k] :
                NumericSuffix(k, id)[1] < NumericSuffix(k, minted'[k][j])[1]

\* What holds of C39: no consent id and no audit id is minted twice, and a
\* session or mcp id is minted again only by a service constructed after the
\* record of that id, and every record of its kind with a higher suffix, was
\* removed from the store.
MintedAgainOnlyAfterRemoval ==
    /\ [](MintedOnce("consent") /\ MintedOnce("audit"))
    /\ [][MintedAgainStep]_vars

\* The second process created a session under the id of a session that was
\* deleted before the restart, and an audit entry of the first process
\* refers to that id.
MintedAgainWitness ==
    /\ restarts = 1
    /\ ~MintedOnce("sess")
    /\ \E i \in DOMAIN sessions :
          /\ sessions[i].id \notin at_start["sess"]
          /\ sessions[i].id \in ReferencedSessions(pending_consents, audit)
          /\ sessions[i].messages = <<>>

(***************************************************************************)
(* mcp.servers.start with its result: the registry handlers, the exit of a *)
(* child and the restart, where each start records what it was called      *)
(* with, what was tracked under the id before, and what it returned.       *)
(***************************************************************************)
\* What mcp_servers_start returns: the error of the lookup or of the spawn,
\* or the response of set_mcp_server_status.
mcp_servers_start(items, processes, server_id, spawned) ==
    IF ServerPosition(items, server_id) = 0
    THEN [ok |-> FALSE, error |-> "mcp server not found", server |-> None]
    ELSE IF /\ ~(server_id \in DOMAIN processes /\ try_wait(processes[server_id]) = None)
            /\ ~spawned
    THEN [ok |-> FALSE, error |-> "io error", server |-> None]
    ELSE [ok |-> TRUE, error |-> "",
          server |-> Some(set_mcp_server_status(items, server_id, "running")
                             [ServerPosition(items, server_id)])]

StartCall(server_id, spawned) ==
    /\ McpServersStart(server_id, spawned)
    /\ call_in' = Some([server_id |-> server_id, spawned |-> spawned,
                        tracked |-> IF server_id \in DOMAIN mcp_processes
                                    THEN Some(mcp_processes[server_id]) ELSE None,
                        running |-> /\ server_id \in DOMAIN mcp_processes
                                    /\ try_wait(mcp_processes[server_id]) = None])
    /\ call_out' = Some(mcp_servers_start(mcp_servers, mcp_processes, server_id, spawned))

StartNext ==
    /\ \/ /\ \/ McpServersAdd
             \/ \E server_id \in ServerIds : McpServersRemove(server_id)
             \/ \E server_id \in ServerIds : McpServersStop(server_id)
             \/ McpServersList
             \/ SystemHealth
             \/ \E pid \in 1..MaxSpawns : ChildExit(pid)
             \/ Restart
          /\ UNCHANGED callVars
       \/ \E server_id \in ServerIds, spawned \in BOOLEAN : StartCall(server_id, spawned)
    /\ UNCHANGED <<orchVars, svcVars, fsVars>>
    /\ IdsTrack

SpecStart == McpInit /\ [][StartNext]_vars

\* Every live child is tracked under exactly one server id.
OneChildPerServer ==
    \A pid \in os_alive :
       Cardinality({id \in DOMAIN mcp_processes : mcp_processes[id] = pid}) = 1

\* The start spawned nothing and left the table of children as it was.
NothingSpawned ==
    /\ next_pid' = next_pid
    /\ os_alive' = os_alive
    /\ mcp_processes' = mcp_processes

\* The three cases of a start: the id is not in the registry; the tracked
\* child is running; no child is tracked or the tracked child has exited and
\* the command spawns.
StartStep(server_id, spawned) ==
    StartCall(server_id, spawned) =>
       IF ServerPosition(mcp_servers, server_id) = 0
       THEN /\ ~call_out'[1].ok
            /\ call_out'[1].error = "mcp server not found"
            /\ NothingSpawned
            /\ mcp_servers' = mcp_servers
       ELSE IF call_in'[1].running
       THEN /\ call_out'[1].ok
            /\ NothingSpawned
            /\ mcp_processes'[server_id] \in os_alive'
       ELSE spawned =>
               /\ call_out'[1].ok
               /\ next_pid' = next_pid + 1
               /\ os_alive' = os_alive \cup {next_pid}
               /\ next_pid \notin os_alive
               /\ DOMAIN mcp_processes' = DOMAIN mcp_processes \cup {server_id}
               /\ mcp_processes'[server_id] = next_pid
               /\ \A id \in DOMAIN mcp_processes \ {server_id} :
                     mcp_processes'[id] = mcp_processes[id]

\* C40: every live child is tracked under exactly one server id; a start
\* with an id that is not in the registry fails with "mcp server not found",
\* spawns nothing and changes no record; a start on a server whose tracked
\* child is running spawns nothing and keeps the child; a start on a server
\* whose tracked child has exited, with a command that spawns, puts exactly
\* one new child in place of the handle.
StartTracksOneChild ==
    /\ []OneChildPerServer
    /\ [][\A server_id \in ServerIds, spawned \in BOOLEAN :
             StartStep(server_id, spawned)]_vars

\* The last start found the handle of an exited child under the id and
\* returned with a new, live child tracked in its place.
StartReplacedWitness ==
    /\ call_in # None /\ call_out # None
    /\ call_in[1].tracked # None
    /\ ~call_in[1].running
    /\ call_out[1].ok
    /\ call_in[1].server_id \in DOMAIN mcp_processes
    /\ mcp_processes[call_in[1].server_id] # call_in[1].tracked[1]
    /\ mcp_processes[call_in[1].server_id] \in os_alive
    /\ call_in[1].tracked[1] \notin os_alive

====
